---- MODULE Spec2Model ----
(***************************************************************************)
(* turtle.io: request pipeline (virtual hosts, route index, middleware     *)
(* runner, body accumulation, terminal error emission).                    *)
(*                                                                         *)
(* Three generations of the pipeline live in the repository and are kept   *)
(* apart by req.entry:                                                     *)
(*   "route"    route() -> run()                  (unnamed/part_000)       *)
(*   "pipeline" decorate().then(connect).then(route)   (src/route.js)      *)
(*   "router"   connect() is itself the first middleware of the chain      *)
(*              (unnamed/part_001), walked by run.next                     *)
(***************************************************************************)
EXTENDS Integers, Sequences, FiniteSets, TLC

\* ------------------------------------------------------------------ bounds
MaxHandlers == 3      \* longest selected handler list
MaxExtraCalls == 1    \* most repeated continuation calls (a handler's second, third, ...) per request
MaxBodyHandlers == 2  \* longest handler list behind a body-carrying request
MaxChunks == 2        \* most "data" events of one request
MaxBytesCfg == 1      \* largest configured config.maxBytes
MaxUse == 2           \* most handler registrations after the factory's own
MaxCalls == 2         \* most lookups and decorations on one instance

\* ----------------------------------------------------------- status codes
SUCCESS == 200
FORBIDDEN == 403
NOT_FOUND == 404
NOT_ALLOWED == 405
REQ_TOO_LARGE == 413
SERVER_ERROR == 500
SERVICE_UNAVAILABLE == 503

ALL == "all"

\* CODES[ name ] for the error messages the model lets a handler raise;
\* 0 stands for undefined (no such key).
CODES(name) ==
    CASE name = "NOT_FOUND" -> NOT_FOUND
      [] name = "FORBIDDEN" -> FORBIDDEN
      [] name = "SERVER_ERROR" -> SERVER_ERROR
      [] name = "SERVICE_UNAVAILABLE" -> SERVICE_UNAVAILABLE
      [] OTHER -> 0

\* ------------------------------------------------------------ RegExp cache
\* regex.body, regex.get, regex.head: case-insensitive, anchored alternations
regex_body == {"PUT", "POST", "PATCH"}
regex_get == {"GET", "HEAD", "OPTIONS"}
regex_head == {"HEAD", "OPTIONS"}

Methods == {"GET", "HEAD", "POST", "DELETE"}
Entries == {"route", "pipeline", "router"}
Hostnames == {"a", "b"}

\* error values handed to next(): message "413" (new Error(CODES.REQ_TOO_LARGE)),
\* a code name, or any other message; "none" is next() without argument
Errors == {"413", "NOT_FOUND", "boom"}
\* the errors a user handler passes to next(); "413" is raised by connect
HandlerErrors == {"NOT_FOUND"}
IsNumeric(msg) == msg = "413"
ToNumber(msg) == IF msg = "413" THEN REQ_TOO_LARGE ELSE 0

\* declared parameter counts of the handlers a list may hold
Params == {3, 4, 5}
RespondStatuses == {SUCCESS, FORBIDDEN}

\* status pages loaded at start(): pages.all from the pages directory, and
\* one per-host table
Pages == [all |-> {NOT_FOUND, SERVER_ERROR}, a |-> {NOT_ALLOWED}]

VARIABLES
    config,    \* [catchAll, maxBytes]
    req,       \* the request: entry, method, hostname, invalid, body, payload, listening, ended
    res,       \* the response: _header (status written, 0 = none), heads (writeHead calls),
               \* body (first body ended with), ends (end calls)
    run,       \* the runner's closure: chain, it (iterator), started, called, extra
    promise,   \* deferreds of the promise pipeline: connect, route, reason, extended, handled
    obs,       \* request: the file handler was handed the request
    ev,        \* the last step: op, the continuation's argument and caller, and its outcome
    allow,     \* allowed("get", ...), allowed(method, ...) as seen by last() and error()
    middleware,    \* middleware[ host ][ method ]: patterns in key order, each with its handler list
    routeCache,    \* LRU: method:host:uri -> handler list
    permissions,   \* LRU: host_uri -> Allow string
    noaction,      \* config.noaction: blacklisted handler hashes
    vhosts,        \* labels in insertion order
    vhostsRegExp,  \* their compiled patterns, index-aligned
    registered,    \* every use() since the factory returned, in order
    call,          \* the last call on the instance: op, arguments, result; n counts lookups
    etags,         \* the ETag LRU: url -> etag, headers, timestamp
    disk,          \* the files below and around the vhost root
    clock,         \* new Date().getTime() / 1000
    served,        \* the last serving operation: request, arguments, emission
    watching,      \* this.watching: watched path -> the url its listener closes over
    timers,        \* setTimeout callbacks not yet run: the url to unregister and when
    tmp,           \* the side files in config.tmp: etag and type
    sweeping,      \* fs.exists / fs.unlink of unregister() not yet called back
    streams,       \* compress() calls under way: phase, side file, answer
    handles        \* the watchers fs.watch() returned: path, url, open or closed,
                   \* and whether an fs.lstat of a change event is pending

routing == <<middleware, routeCache, permissions, noaction, vhosts, vhostsRegExp, registered, call>>

side == <<tmp, sweeping, streams, handles>>

serving == <<etags, disk, clock, served, watching, timers, side>>

vars == <<config, req, res, run, promise, obs, ev, allow, routing, serving>>

\* ------------------------------------------------------------ pure helpers
\* get_arity: the text between the first "(" and ")" split on ","; an empty
\* parameter list splits into one empty string
get_arity(h) == IF h.params = 0 THEN 1 ELSE h.params

\* page( code, host )
page(code, hostname) ==
    LET h == IF hostname \in DOMAIN Pages THEN hostname ELSE ALL
    IN  IF code \in Pages[h] THEN <<"page", h, code>>
        ELSE IF SERVER_ERROR \in Pages[h] THEN <<"page", h, SERVER_ERROR>>
        ELSE <<"page", ALL, SERVER_ERROR>>

NO_CONTENT == <<>>

\* call counters distinguish never, once and more than once
Inc(n) == IF n < 2 THEN n + 1 ELSE n

\* byte length of the accumulated payload (a sequence of chunk sizes)
RECURSIVE byteLength(_)
byteLength(p) == IF p = <<>> THEN 0 ELSE Head(p) + byteLength(Tail(p))

\* the state the operators below thread through
St == [req |-> req, res |-> res, run |-> run, promise |-> promise, obs |-> obs, ev |-> ev]

Event(op, err, by) == [op |-> op, err |-> err, by |-> by, out |-> "none", status |-> 0]
Step(op) == [St EXCEPT !.ev = Event(op, "none", 0)]

Set(s) ==
    /\ req' = s.req
    /\ res' = s.res
    /\ run' = s.run
    /\ promise' = s.promise
    /\ obs' = s.obs
    /\ ev' = s.ev

\* ------------------------------------------------------------- respond()
\* the buffered branch: writeHead() only when no head was written, then end()
respond(s, body, status) ==
    LET b == IF s.req.method \in regex_head THEN NO_CONTENT ELSE body
        unsent == s.res._header = 0
    IN  [s EXCEPT !.res = [_header |-> IF unsent THEN status ELSE @._header,
                           heads |-> IF unsent THEN Inc(@.heads) ELSE @.heads,
                           body |-> IF @.ends > 0 THEN @.body ELSE b,
                           ends |-> Inc(@.ends)]]

\* --------------------------------------------------------------- error()
\* status 0 stands for a status that is not a number (isNaN)
ErrorStatus(s, status) ==
    IF status # 0 THEN status
    ELSE IF s.req.method \in regex_get THEN NOT_FOUND
    ELSE IF allow.method THEN SERVER_ERROR
    ELSE NOT_ALLOWED

\* variant: error() that settles the status and writes nothing
error_route_silent(s, status, msg) ==
    [s EXCEPT !.ev.out = "error", !.ev.status = ErrorStatus(s, status)]

\* part_000: the body is always the status page, msg is only logged
error_route(s, status, msg) ==
    LET st == ErrorStatus(s, status)
        s1 == [s EXCEPT !.ev.out = "error", !.ev.status = st]
    IN  respond(s1, page(st, s.req.hostname), st)

\* route.js: the body is msg when one is given, else the status page
error_pipeline(s, status, msg) ==
    LET st == ErrorStatus(s, status)
        s1 == [s EXCEPT !.ev.out = "error", !.ev.status = st]
    IN  respond(s1, IF msg = "undefined" THEN page(st, s.req.hostname) ELSE <<"msg", msg>>, st)

\* request(): the file handler takes the request over
request(s) == [s EXCEPT !.obs.request = TRUE, !.ev.out = "request"]

\* ------------------------------------------------------- deferred (promise)
\* a deferred settles once; later resolve/reject calls are ignored
reject_route(s, status, extended) ==
    IF s.promise.route = "pending"
    THEN [s EXCEPT !.promise.route = "rejected", !.promise.reason = status,
                   !.promise.extended = extended,
                   !.ev.out = "reject", !.ev.status = status]
    ELSE s

resolve_route(s) ==
    IF s.promise.route = "pending"
    THEN [s EXCEPT !.promise.route = "resolved", !.ev.out = "resolve"]
    ELSE s

\* ---------------------------------------------------------------- last()
statusCode(s) == IF s.res._header = 0 THEN SUCCESS ELSE s.res._header

\* run.last of part_000
last_route(s, err) ==
    IF err = "none"
    THEN IF s.req.method \in regex_get THEN request(s)
         ELSE IF allow.get THEN error_route(s, NOT_ALLOWED, "undefined")
         ELSE error_route(s, NOT_FOUND, "undefined")
    ELSE LET status == IF statusCode(s) >= 400 THEN statusCode(s)
                       ELSE IF CODES(err) # 0 THEN CODES(err) ELSE SERVER_ERROR
         IN  error_route(s, status, err)

\* route.last of route.js
last_pipeline(s, err) ==
    IF err = "none"
    THEN IF s.req.method \in regex_get THEN resolve_route(s)
         ELSE IF allow.get THEN reject_route(s, NOT_ALLOWED, "undefined")
         ELSE reject_route(s, NOT_FOUND, "undefined")
    ELSE LET status == IF statusCode(s) >= 400 THEN statusCode(s)
                       ELSE IF IsNumeric(err) THEN ToNumber(err)
                       ELSE IF CODES(err) # 0 THEN CODES(err) ELSE SERVER_ERROR
         IN  reject_route(s, status, IF IsNumeric(err) THEN "undefined" ELSE err)

last(s, err) == IF s.req.entry = "pipeline" THEN last_pipeline(s, err) ELSE last_route(s, err)

\* ---------------------------------------------------------------- next()
\* variant: a scan that passes over every handler whose arity is not 4
ScanStop_four(chain, from) ==
    LET c == {j \in (from + 1)..Len(chain) : get_arity(chain[j]) = 4}
    IN  IF c = {} THEN 0 ELSE CHOOSE j \in c : \A k \in c : j <= k

\* the first index after `from` whose handler has arity >= 4; 0 when none
ScanStop(chain, from) ==
    LET c == {j \in (from + 1)..Len(chain) : get_arity(chain[j]) >= 4}
    IN  IF c = {} THEN 0 ELSE CHOOSE j \in c : \A k \in c : j <= k

invoke(s, j, by) ==
    [s EXCEPT !.run.it = j,
              !.run.started = Append(@, [h |-> j, by |-> by]),
              !.ev.out = "invoke"]

\* one call of the continuation, made by `by` (0 is run() itself)
next(s0, err, by) ==
    LET s == [s0 EXCEPT !.ev = Event("next", err, by)]
        chain == s.run.chain
        it == s.run.it
    IN  IF it < Len(chain)
        THEN IF err # "none"
             THEN LET j == ScanStop(chain, it)
                  IN  IF j = 0 THEN last([s EXCEPT !.run.it = Len(chain)], err)
                      ELSE IF get_arity(chain[j]) = 4 THEN invoke(s, j, by)
                      ELSE last([s EXCEPT !.run.it = j], err)
             ELSE invoke(s, it + 1, by)
        ELSE IF s.res._header = 0 /\ config.catchAll THEN last(s, err)
        ELSE IF s.res._header # 0 /\ s.req.entry = "pipeline" THEN resolve_route(s)
        ELSE s

\* a handler's call of its continuation is recorded; a repeated call is counted
called(s, k) ==
    [s EXCEPT !.run.called = @ \cup {k},
              !.run.extra = IF k \in s.run.called THEN Inc(@) ELSE @]

\* ------------------------------------------------------------------ strings
\* the characters of the strings the model registers and looks up
Chars(str) ==
    CASE str = "/.*" -> <<"/", ".", "*">>
      [] str = "/a"  -> <<"/", "a">>
      [] str = "/A"  -> <<"/", "A">>
      [] str = "/b"  -> <<"/", "b">>
      [] str = "/a+" -> <<"/", "a", "+">>
      [] str = "all" -> <<"a", "l", "l">>
      [] str = "a*"  -> <<"a", "*">>
      [] str = "*"   -> <<"*">>
      [] str = "a"   -> <<"a">>
      [] str = "b"   -> <<"b">>

toLowerCase(c) == IF c = "A" THEN "a" ELSE c

toUpperCase(verb) ==
    CASE verb = "delete" -> "DELETE"
      [] verb = "get" -> "GET"
      [] verb = "post" -> "POST"
      [] verb = "put" -> "PUT"
      [] verb = "patch" -> "PATCH"

VERBS == <<"delete", "get", "post", "put", "patch">>

\* ------------------------------------------------------------------- RegExp
\* new RegExp( "^" + source + "$", flags ): literals, ".", and the postfix
\* quantifiers "*" and "+"
RegExp(source, flags) == [source |-> source, flags |-> flags]

RECURSIVE Match(_, _, _)
Match(p, s, ci) ==
    IF p = <<>> THEN s = <<>>
    ELSE LET c == p[1]
             q == IF Len(p) >= 2 THEN p[2] ELSE ""
             rest == SubSeq(p, 3, Len(p))
             hit == s # <<>> /\ (c = "." \/ c = s[1] \/ (ci /\ toLowerCase(c) = toLowerCase(s[1])))
         IN  IF q = "*" THEN Match(rest, s, ci) \/ (hit /\ Match(p, Tail(s), ci))
             ELSE IF q = "+" THEN hit /\ Match(<<c, "*">> \o rest, Tail(s), ci)
             ELSE hit /\ Match(Tail(p), Tail(s), ci)

test(re, str) == Match(re.source, Chars(str), re.flags = "i")

\* arg.replace( /\*/g, ".*" )
RECURSIVE ReplaceStar(_)
ReplaceStar(cs) ==
    IF cs = <<>> THEN <<>>
    ELSE (IF Head(cs) = "*" THEN <<".", "*">> ELSE <<Head(cs)>>) \o ReplaceStar(Tail(cs))

\* ------------------------------------------------------------ route index
\* the instance state the routing operators thread through; result is the
\* value returned, cold tells that routes() computed it
Rt == [middleware |-> middleware, routeCache |-> routeCache, permissions |-> permissions,
       noaction |-> noaction, vhosts |-> vhosts, vhostsRegExp |-> vhostsRegExp,
       registered |-> registered, result |-> <<>>, cold |-> FALSE, thrown |-> FALSE]

SetRt(t) ==
    /\ middleware' = t.middleware
    /\ routeCache' = t.routeCache
    /\ permissions' = t.permissions
    /\ noaction' = t.noaction
    /\ vhosts' = t.vhosts
    /\ vhostsRegExp' = t.vhostsRegExp
    /\ registered' = t.registered

\* evaluation helper: F applied to the value of v, v evaluated once
Bind(v, F(_)) == CHOOSE r \in {F(x) : x \in {v}} : TRUE

\* lru.set / object property assignment
Put(f, k, v) == [x \in DOMAIN f \cup {k} |-> IF x = k THEN v ELSE f[x]]

\* this.middleware[ host ][ method ], empty when either level is missing
Table(mw, hst, method) == IF <<hst, method>> \in DOMAIN mw THEN mw[<<hst, method>>] ELSE <<>>

RECURSIVE Concat(_)
Concat(lists) == IF lists = <<>> THEN <<>> ELSE Head(lists) \o Concat(Tail(lists))

\* the handler lists of the keys of c whose anchored pattern matches uri
Matching(c, uri) ==
    LET keys == SelectSeq(c, LAMBDA e : test(RegExp(Chars(e.path), "i"), uri))
    IN  Concat([i \in 1..Len(keys) |-> keys[i].fns])

Collect(mw, uri, hst, method) ==
    Matching(Table(mw, ALL, ALL), uri) \o Matching(Table(mw, ALL, method), uri)
      \o Matching(Table(mw, hst, ALL), uri) \o Matching(Table(mw, hst, method), uri)

\* routes( uri, host, method, override )
routes(t0, uri, hst, method, override) ==
    Bind(t0, LAMBDA t :
        LET id == <<method, hst, uri>>
            cached == ~override /\ id \in DOMAIN t.routeCache
        IN  Bind(IF cached THEN t.routeCache[id] ELSE Collect(t.middleware, uri, hst, method),
                 LAMBDA result :
                    [t EXCEPT !.routeCache = IF cached THEN @ ELSE Put(@, id, result),
                              !.result = result,
                              !.cold = ~cached]))

\* hash( fn.toString() ): a handler is named by its source text
hash(fn) == fn

\* allowed( method, uri, host, override )
\* this.config.noaction after stop(): config is {} and the key is gone
undefined == "undefined"

\* the filter reads this.config.noaction[ hash ] for every route found: with
\* the key undefined the first read throws a TypeError
allowed(t, method, uri, hst, override) ==
    Bind(routes(t, uri, hst, method, override), LAMBDA r :
        IF r.noaction = {undefined}
        THEN [r EXCEPT !.thrown = @ \/ r.result # <<>>, !.result = FALSE]
        ELSE [r EXCEPT !.result = \E i \in 1..Len(r.result) : hash(r.result[i]) \notin r.noaction])

\* VERBS.filter( i => this.allowed( i, uri, host, override ) )
RECURSIVE FilterVerbs(_, _, _, _, _)
FilterVerbs(t, verbs, uri, hst, override) ==
    IF verbs = <<>> THEN [t EXCEPT !.result = <<>>]
    ELSE Bind(allowed(t, Head(verbs), uri, hst, override), LAMBDA a :
            Bind(FilterVerbs(a, Tail(verbs), uri, hst, override), LAMBDA rest :
                [rest EXCEPT !.result = IF a.result THEN <<Head(verbs)>> \o @ ELSE @]))

\* join( ", " ).toUpperCase().replace( "GET", "GET, HEAD, OPTIONS" ): the
\* string as the sequence of its method tokens, "" being <<>>
AllowString(verbs) ==
    Concat([i \in 1..Len(verbs) |->
               IF verbs[i] = "get" THEN <<"GET", "HEAD", "OPTIONS">>
               ELSE <<toUpperCase(verbs[i])>>])

\* allows( uri, host, override ): an absent and an empty memo are both falsy
allows(t0, uri, hst, override) ==
    Bind(t0, LAMBDA t :
        LET key == <<hst, uri>>
            memo == IF ~override /\ key \in DOMAIN t.permissions THEN t.permissions[key] ELSE <<>>
        IN  IF memo # <<>> THEN [t EXCEPT !.result = memo]
            ELSE Bind(FilterVerbs(t, VERBS, uri, hst, override), LAMBDA f :
                    IF f.thrown THEN [f EXCEPT !.result = <<>>]
                    ELSE [f EXCEPT !.permissions = Put(@, key, AllowString(f.result)),
                                   !.result = AllowString(f.result)]))

\* use( path, fn, host, method )
use(t0, path, fn, hst, method) ==
  Bind(t0, LAMBDA t :
    LET c == Table(t.middleware, hst, method)
        known == \E i \in 1..Len(c) : c[i].path = path
        c1 == IF known
              THEN [i \in 1..Len(c) |-> IF c[i].path = path
                                        THEN [c[i] EXCEPT !.fns = Append(@, fn)]
                                        ELSE c[i]]
              ELSE Append(c, [path |-> path, fns |-> <<fn>>])
    IN  [t EXCEPT !.middleware = Put(@, <<hst, method>>, c1),
                  !.registered = Append(@, [path |-> path, fn |-> fn, host |-> hst, method |-> method])])

\* blacklist( fn )
blacklist(t, fn) == [t EXCEPT !.noaction = (@ \ {undefined}) \cup {hash(fn)}]

\* stop(): the configuration and every cache but the middleware are replaced
stop_instance(t) ==
    [t EXCEPT !.noaction = {undefined}, !.permissions = <<>>, !.routeCache = <<>>,
              !.vhosts = <<>>, !.vhostsRegExp = <<>>]

\* host( arg )
host(t, arg) ==
    IF \E i \in 1..Len(t.vhosts) : t.vhosts[i] = arg THEN t
    ELSE [t EXCEPT !.vhosts = Append(@, arg),
                   !.vhostsRegExp = Append(@, RegExp(ReplaceStar(Chars(arg)), ""))]

\* the virtual-host loop of decorate(): array.each / array.iterate stop at
\* the callback's false, Array.prototype.forEach ignores it
Loops == {"array.each", "forEach"}

vhost_each(t, hostname) ==
    LET hits == {i \in 1..Len(t.vhostsRegExp) : test(t.vhostsRegExp[i], hostname)}
    IN  IF hits = {} THEN config.default
        ELSE t.vhosts[CHOOSE i \in hits : \A j \in hits : i <= j]

vhost_forEach(t, hostname) ==
    LET hits == {i \in 1..Len(t.vhostsRegExp) : test(t.vhostsRegExp[i], hostname)}
    IN  IF hits = {} THEN config.default
        ELSE t.vhosts[CHOOSE i \in hits : \A j \in hits : i >= j]

\* decorate( req, res ): virtual host, GET fallback, Allow string
decorate(t, hostname, pathname, loop) ==
    Bind(IF loop = "forEach" THEN vhost_forEach(t, hostname) ELSE vhost_each(t, hostname),
         LAMBDA vhost :
            Bind(allowed(t, "get", pathname, vhost, FALSE), LAMBDA a :
                Bind(allows(IF a.result THEN a ELSE use(a, pathname, "fallback", vhost, "get"),
                            pathname, vhost, ~a.result),
                     LAMBDA al : [al EXCEPT !.result = [vhost |-> vhost, allow |-> al.result,
                                                        update |-> ~a.result]])))

\* the handlers use() registers after the factory, one fresh function each
Fns == <<"f", "g", "h">>

Call(op, n) ==
    [op |-> op, n |-> n, uri |-> "", host |-> "", method |-> "", override |-> FALSE,
     hostname |-> "", loop |-> "", cold |-> FALSE, result |-> <<>>]

\* factory() followed by start(): cors and etag on every path, both
\* blacklisted; host( ALL ) registered first
\* start(): the hosts of cfg.vhosts, in order
RECURSIVE hosts_each(_, _)
hosts_each(t, hosts) ==
    IF hosts = <<>> THEN t ELSE hosts_each(host(t, Head(hosts)), Tail(hosts))

\* start( cfg ): the default configuration and cfg are merged into
\* this.config, then host( ALL ) and the hosts of cfg. defaults tells
\* whether config.json carries a noaction key
start_instance(t, hosts, defaults) ==
    hosts_each(host([t EXCEPT !.noaction = IF @ = {undefined} /\ defaults = "empty"
                                           THEN {} ELSE @], ALL), hosts)

InitRouting ==
    /\ middleware = (<<ALL, ALL>> :> <<[path |-> "/.*", fns |-> <<"cors", "etag">>]>>)
    /\ routeCache = <<>>
    /\ permissions = <<>>
    /\ noaction = {"cors", "etag"}
    /\ vhosts = <<ALL>>
    /\ vhostsRegExp = <<RegExp(ReplaceStar(Chars(ALL)), "")>>
    /\ registered = <<>>
    /\ call = Call("start", 0)

\* ------------------------------------------------ response headers, ETag cache
CREATED == 201
NO_CONTENT_STATUS == 204
PARTIAL_CONTENT == 206
MULTIPLE_CHOICE == 300
NOT_MODIFIED == 304
BAD_REQUEST == 400
CONFLICT == 409
FAILED == 412
NOT_SATISFIABLE == 416

\* isNaN( x ): undefined and NaN are both written NaN
NaN == -1

\* config.headers after configure(): server and x-powered-by are always there
config_headers == ("server" :> "turtle.io") @@ ("x-powered-by" :> "node.js")

ACCESS_CONTROL == <<"access-control-allow-origin", "access-control-expose-headers",
                    "access-control-max-age", "access-control-allow-credentials",
                    "access-control-allow-methods", "access-control-allow-headers">>

\* the headers register() deletes from the state it stores
SUPERFICIAL == <<"content-encoding", "server", "status", "transfer-encoding",
                 "x-powered-by", "x-response-time">> \o ACCESS_CONTROL

\* str.replace( /"/g, "" ): a header value is the sequence of its tokens
unquote(str) == SelectSeq(str, LAMBDA c : c # "\"")

\* "\"" + etag + "\""
quote(str) == <<"\"">> \o str \o <<"\"">>

\* etag( ...args ): hash( args.join( "-" ) ), the hash injective on the joined text
etag(url, size, modified) == <<url, ToString(size), ToString(modified)>>

\* regex.nocache /no-store|no-cache/i and regex.private /private/ on Cache-Control
nocache_never(h) == FALSE
nocache(h) == "cache-control" \in DOMAIN h /\ h["cache-control"] \in {"no-cache", "no-store"}
private(h) == "cache-control" \in DOMAIN h /\ h["cache-control"] = "private"

\* req.headers.range.match( /\d+/g ) || []
MatchDigits(range) ==
    CASE range = "bytes=0-1" -> <<0, 1>>
      [] range = "bytes=1-1" -> <<1, 1>>
      [] range = "bytes=2-1" -> <<2, 1>>
      [] range = "bytes=1-" -> <<1>>
      [] OTHER -> <<>>

\* number.diff( a, b )
diff(a, b) == IF a > b THEN a - b ELSE b - a

\* merge( a, b ): b's keys win
merge(a, b) == [x \in DOMAIN a \cup DOMAIN b |-> IF x \in DOMAIN b THEN b[x] ELSE a[x]]

\* one statement on a headers object, executed when its condition holds
set(c, k, v) == [when |-> c, op |-> "set", k |-> k, v |-> v]
delete(c, k) == [when |-> c, op |-> "delete", k |-> k, v |-> 0]
default(c, k, v) == [when |-> c, op |-> "default", k |-> k, v |-> v]

Edit(h, e) ==
    IF ~e.when THEN h
    ELSE CASE e.op = "delete" -> [x \in DOMAIN h \ {e.k} |-> h[x]]
           [] e.op = "set" -> Put(h, e.k, e.v)
           [] e.op = "default" -> IF e.k \in DOMAIN h THEN h ELSE Put(h, e.k, e.v)

RECURSIVE Apply(_, _)
Apply(h, es) ==
    IF es = <<>> THEN h ELSE Bind(Edit(h, Head(es)), LAMBDA g : Apply(g, Tail(es)))

\* array.each( list, i => delete headers[ i ] )
DeleteAll(c, list) == [i \in 1..Len(list) |-> delete(c, list[i])]

\* headers( req, rHeaders, status ): a 3xx other than 304 keeps the handler's
\* headers; every other status starts from config.headers
headers(gen, q, rHeaders, status) ==
    LET redirect == status # NOT_MODIFIED /\ status >= MULTIPLE_CHOICE /\ status < BAD_REQUEST
        get == q.method \in regex_get
        d == ~redirect
        \* headers[ "x-ratelimit-limit" ] is tested for truth, and only by the
        \* class of route.js and by part_001
        limited == /\ gen = "pipeline"
                   /\ "x-ratelimit-limit" \in DOMAIN rHeaders
                   /\ rHeaders["x-ratelimit-limit"] # ""
        unwanted == ~get \/ status >= BAD_REQUEST \/ limited
    IN  Apply(IF redirect THEN rHeaders ELSE merge(config_headers, rHeaders),
              << set(d, "allow", q.allow),
                 default(d, "date", "now"),
                 set(d /\ q.cors /\ gen = "pipeline", "access-control-allow-origin", "origin"),
                 set(d /\ q.cors /\ gen = "pipeline", "access-control-allow-credentials", "true"),
                 set(d /\ q.cors, "access-control-allow-methods", q.allow) >>
              \o DeleteAll(d /\ ~q.cors, ACCESS_CONTROL) \o
              << default(d, "transfer-encoding", "identity"),
                 delete(d /\ unwanted, "cache-control"),
                 delete(d /\ unwanted, "etag"),
                 delete(d /\ unwanted, "last-modified"),
                 set(d /\ limited, "cache-control", "no-cache"),
                 delete(d /\ status = NOT_MODIFIED, "last-modified"),
                 delete(d /\ ((status = NOT_FOUND /\ q.allow # "") \/ status >= SERVER_ERROR),
                        "accept-ranges"),
                 set(TRUE, "status", status) >>)

\* mime.lookup( req.path || req.parsed.pathname )
mime == "text/plain"

\* what the emission operators thread through: the ETag cache, the request
\* (respond() deletes its Range header), the responses written to the socket,
\* the continuations called, the disk and the calls made on it, the promise's
\* rejection, the watched paths, and the etags whose side files unregister()
\* set out to delete
NoWatch == [p \in {} |-> ""]
Emission(cache, files, q) ==
    [etags |-> cache, disk |-> files, q |-> q, sent |-> <<>>, nexts |-> <<>>, fsops |-> <<>>,
     rejected |-> 0, diverged |-> FALSE, watching |-> NoWatch, swept |-> <<>>,
     timers |-> {}]

\* unregister( url ): the entry is removed and the deletion of its side files
\* <tmp>/<etag>.gz and .zz is started; without an entry nothing happens
unregister(s, url) ==
    IF url \notin DOMAIN s.etags THEN s
    ELSE [s EXCEPT !.etags = [u \in DOMAIN @ \ {url} |-> @[u]],
                   !.swept = Append(@, s.etags[url].etag)]

\* register( url, state, stale ): the 5.x register strips the superficial
\* headers from the state, the 3.x register stores it as it is
register(gen, s, url, state, stale) ==
    Bind(IF stale /\ url \in DOMAIN s.etags /\ s.etags[url].etag # state.etag
         THEN unregister(s, url) ELSE s, LAMBDA s1 :
        Bind(IF gen = "pipeline" THEN Apply(state.headers, DeleteAll(TRUE, SUPERFICIAL))
             ELSE state.headers, LAMBDA stripped :
            [s1 EXCEPT !.etags = Put(@, url, [state EXCEPT !.headers = stripped])]))

\* the response under construction
Response(h, body, status, file, options) ==
    [h |-> h, body |-> body, status |-> status, file |-> file, options |-> options]

\* watch( url, path ): one listener per path, closed over the url of the
\* request that created it
watch(s, url, path) ==
    IF path \in DOMAIN s.watching THEN s
    ELSE [s EXCEPT !.watching = [p \in DOMAIN @ \cup {path} |-> IF p = path THEN url ELSE @[p]]]

\* finalize(): the write-through of respond(); returns the emission state
\* and the headers (the closure assigns headers.etag and deletes allow)
finalize(gen, s, x, now) ==
    LET get_only == s.q.method = "GET"
        cacheable == IF gen = "pipeline" THEN get_only /\ x.status \in {SUCCESS, NOT_MODIFIED}
                     ELSE get_only /\ x.status = SUCCESS
        store == cacheable /\ ~nocache(x.h) /\ ~private(x.h)
        cached == s.q.href \in DOMAIN s.etags
        size == IF x.body = NO_CONTENT THEN 0 ELSE Len(x.body)
        modified == IF "last-modified" \in DOMAIN x.h THEN x.h["last-modified"] ELSE 0
        \* req.path, as handle() decorates it for a GET of a file
        watched(t) == IF cacheable /\ "path" \in DOMAIN t.q THEN watch(t, t.q.href, t.q.path) ELSE t
    IN  Bind(Apply(x.h,
                << default(store /\ (gen = "route" \/ ~cached), "etag",
                           quote(etag(s.q.href, size, modified))),
                   delete(gen = "pipeline" /\ ~cacheable /\ x.status = NOT_FOUND, "allow"),
                   delete(gen = "pipeline" /\ ~cacheable /\ x.status = NOT_FOUND,
                          "access-control-allow-methods") >>), LAMBDA h :
            IF store /\ ~cached
            THEN Bind(Apply(h, << default(gen = "pipeline", "content-type", mime) >>
                               \o DeleteAll(gen = "route", ACCESS_CONTROL)), LAMBDA cheaders :
                     [s |-> watched(register(gen, s, s.q.href,
                                     [etag |-> unquote(cheaders["etag"]), headers |-> cheaders,
                                      timestamp |-> now], TRUE)),
                      h |-> h])
            ELSE [s |-> watched(s), h |-> h])

\* res.writeHead( status, headers ) when no head was written, then the body
send(s, h, status, body, mode) ==
    [s EXCEPT !.sent = Append(@, [status |-> status, headers |-> h, body |-> body, mode |-> mode])]

RECURSIVE respond_emit(_, _, _, _, _, _, _, _)

\* error( req, res, status ): the error page through respond()
error_emit(gen, s, status, now, depth) ==
    respond_emit(gen, s, <<"e", "r", "r", "!">>, status,
                 ("cache-control" :> "no-cache") @@ ("content-length" :> 4), FALSE, now, depth)

\* regex.comp /javascript|json|text|xml/, regex.ie /msie/i, regex.gzip /gz/,
\* regex.def /deflate/ on the values the model draws
regex_comp == {"text/plain", "application/json"}
regex_ie == {"MSIE 9.0"}
regex_gzip == {"gzip"}
regex_def == {"deflate"}

\* compression(): the body of the loop over the offered codings; the 3.x loop
\* tests deflate only when gzip did not match, the 5.x loop tests both
coding(gen, i) ==
    IF gen = "route"
    THEN IF i \in regex_gzip THEN "gz" ELSE IF i \in regex_def THEN "zz" ELSE "null"
    ELSE IF i \in regex_def THEN "zz" ELSE IF i \in regex_gzip THEN "gz" ELSE "null"

\* compression(): the loop stops at the first coding it supports
RECURSIVE supported(_, _)
supported(gen, encodings) ==
    IF encodings = <<>> THEN "null"
    ELSE IF coding(gen, Head(encodings)) # "null" THEN coding(gen, Head(encodings))
    ELSE supported(gen, Tail(encodings))

\* compression( agent, encoding, mimetype ); encodings is string.explode( encoding ),
\* empty when the header is missing
compression(gen, enabled, agent, encodings, mimetype) ==
    IF enabled /\ mimetype \in regex_comp /\ agent \notin regex_ie
    THEN supported(gen, encodings) ELSE "null"

\* respond(): whether the response is compressed, and its Content-Encoding;
\* ua is "" when the request has no User-Agent
content_encoding(gen, status, body, enabled, ua, encodings, mimetype) ==
    IF ua # "" /\ status \in {SUCCESS, PARTIAL_CONTENT} /\ body # NO_CONTENT /\ enabled
       /\ compression(gen, enabled, ua, encodings, mimetype) # "null"
    THEN IF compression(gen, enabled, ua, encodings, mimetype) = "gz" THEN "gzip" ELSE "deflate"
    ELSE "identity"

\* zlib.gzip / zlib.deflate: the stream is framed by a header and a checksum
deflate(body) == <<"z">> \o body \o <<"z">>

\* compress(): a side file <tmp>/<etag>.<type> that exists is streamed; else
\* a raw body is compressed in memory and a file is piped through zlib.
\* q.exist, q.fail, q.fsize are what the disk and zlib answer; the error
\* listeners unregister the URL.
compress(gen, s, x, now, depth) ==
    LET q == s.q
        fp == "etag" \in DOMAIN x.h
        ranged == x.options # <<>>
        mode == IF fp /\ q.exist THEN "side-file" ELSE IF x.file THEN "zlib-file" ELSE "zlib-raw"
        \* the error listeners: the 5.x ones reject, the 3.x ones answer 500;
        \* the disk fails once
        failed(t) ==
            Bind([unregister(t, q.href) EXCEPT !.q.fail = "none"], LAMBDA u :
                IF gen = "pipeline" THEN [u EXCEPT !.rejected = SERVER_ERROR]
                ELSE error_emit(gen, u, SERVER_ERROR, now, depth))
    IN  IF mode = "side-file"
        THEN Bind(Apply(x.h,
                    << set(gen = "pipeline", "transfer-encoding", "chunked"),
                       delete(gen = "pipeline", "content-length"),
                       set(gen = "route", "content-length", q.fsize),
                       set(ranged, "content-range",
                           IF ranged THEN <<x.options[1], x.options[2], q.fsize>> ELSE <<>>),
                       set(gen = "route" /\ ranged, "content-length",
                           IF ranged THEN diff(x.options[2], x.options[1]) + 1 ELSE 0) >>),
                  LAMBDA h :
                Bind(send(s, h, x.status, <<"gz">>, mode), LAMBDA t :
                    IF q.fail = "read" THEN failed(t) ELSE t))
        ELSE IF mode = "zlib-raw"
        THEN IF q.fail = "read" THEN failed(s)
             ELSE Bind(Apply(x.h,
                         << set(TRUE, "content-length", Len(deflate(x.body))),
                            set(gen = "pipeline", "transfer-encoding", "identity") >>), LAMBDA h :
                     Bind(send(s, h, x.status, deflate(x.body), mode), LAMBDA t :
                         IF fp /\ q.fail = "write" THEN unregister(t, q.href) ELSE t))
        ELSE Bind(Apply(x.h,
                    << set(gen = "pipeline", "transfer-encoding", "chunked"),
                       delete(gen = "pipeline", "content-length") >>), LAMBDA h :
                Bind(send(s, h, x.status, <<"gz">>, mode), LAMBDA t :
                    IF q.fail = "read" THEN failed(t) ELSE t))

\* body.slice( start, end )
slice(body, start, end) ==
    SubSeq(body, start + 1, IF end < Len(body) THEN end ELSE Len(body))

\* the three emission branches of respond(): compressed, file stream, buffered
emit(gen, s, x, now, depth) ==
    LET q == s.q
        ok == x.status \in {SUCCESS, PARTIAL_CONTENT}
        zipped == q.zip /\ ok /\ x.body # NO_CONTENT
        stream == ~zipped /\ ok /\ x.file /\ q.method = "GET"
        trim == gen = "pipeline"
    IN  Bind(Apply(x.h,
               << set(zipped, "content-encoding", "gzip"),
                  set((zipped /\ x.file) \/ stream, "transfer-encoding", "chunked"),
                  delete(trim /\ ((zipped /\ x.file) \/ stream), "content-length") >>), LAMBDA h1 :
            Bind(finalize(gen, s, [x EXCEPT !.h = h1], now), LAMBDA f :
                IF zipped THEN compress(gen, f.s, [x EXCEPT !.h = f.h], now, depth)
                ELSE IF stream
                THEN Bind(send(f.s, f.h, x.status, x.body, "file"), LAMBDA t :
                        IF q.fail # "read" THEN t
                        ELSE IF gen = "pipeline" THEN [t EXCEPT !.rejected = SERVER_ERROR]
                        ELSE error_emit(gen, [t EXCEPT !.q.fail = "none"], SERVER_ERROR, now, depth))
                ELSE send(f.s, f.h, x.status,
                          IF x.status = PARTIAL_CONTENT
                          THEN slice(x.body, x.options[1], x.options[2]) ELSE x.body,
                          "buffered")))

\* delete req.headers.range
forget_range_kept(s) == s

forget_range(s) == [s EXCEPT !.q.hdrs = [k \in DOMAIN @ \ {"range"} |-> @[k]]]

\* respond( req, res, body, status, headers, file ); depth bounds the nesting
\* respond -> error -> respond
respond_emit(gen, s0, body0, status, hdrs, file, now, depth) ==
    Bind(s0, LAMBDA s :
        LET q == s.q
            head == q.method \in regex_head
            options == q.method = "OPTIONS"
            raw == ~file /\ body0 # NO_CONTENT
            body == IF gen = "pipeline" THEN (IF head THEN NO_CONTENT ELSE body0)
                    ELSE (IF raw /\ head THEN NO_CONTENT ELSE body0)
            sized == IF gen = "pipeline" THEN ~file /\ body # NO_CONTENT ELSE raw
            zero == IF gen = "pipeline" THEN head /\ options ELSE raw /\ head /\ options
            modified == status = NOT_MODIFIED
        IN  IF depth = 0 THEN [s EXCEPT !.diverged = TRUE]
            ELSE
            Bind(Apply(headers(gen, q, hdrs, status),
                   << set(gen = "pipeline" /\ zero, "content-length", 0),
                      delete(gen = "pipeline" /\ zero, "content-type"),
                      delete(head, "etag"),
                      delete(head, "last-modified"),
                      default(sized, "content-length", Len(body0)),
                      set(gen = "route" /\ zero, "content-length", 0),
                      delete(gen = "route" /\ zero, "content-type"),
                      delete(~file, "accept-ranges"),
                      delete(modified, "accept-ranges"),
                      delete(modified, "content-encoding"),
                      delete(modified, "content-length"),
                      delete(modified, "content-type"),
                      delete(modified, "date"),
                      delete(modified, "transfer-encoding"),
                      delete(status = NOT_FOUND, "allow"),
                      delete(status = NOT_FOUND, "access-control-allow-methods"),
                      set(TRUE, "x-response-time", "ms") >>), LAMBDA h :
                LET ranged == "range" \in DOMAIN q.hdrs
                    d == IF ranged THEN MatchDigits(q.hdrs["range"]) ELSE <<>>
                    length == IF "content-length" \in DOMAIN h THEN h["content-length"] ELSE NaN
                    start == IF Len(d) >= 1 THEN d[1] ELSE NaN
                    end == IF Len(d) >= 2 THEN d[Len(d)] ELSE length
                IN  IF ~ranged THEN emit(gen, s, Response(h, body, status, file, <<>>), now, depth)
                    ELSE IF start = NaN \/ end = NaN \/ start >= end
                    THEN error_emit(gen, forget_range(s), NOT_SATISFIABLE, now, depth - 1)
                    ELSE Bind(Apply(h,
                                << set(TRUE, "status", PARTIAL_CONTENT),
                                   set(TRUE, "content-range", <<start, end, length>>),
                                   set(TRUE, "content-length", diff(end, start) + 1) >>), LAMBDA h2 :
                            emit(gen, s, Response(h2, body, PARTIAL_CONTENT, file, <<start, end>>),
                                 now, depth))))

\* ------------------------------------------------------------ the ETag gate
\* the etag middleware in its three versions: "connect" (part_001), "factory"
\* (src/factory.js, registered under GET), "route" (part_000)
GateVariants(gen) == IF gen = "route" THEN {"route"} ELSE {"connect", "factory"}

etag_gate_idle(variant, s, now, depth) == [s EXCEPT !.nexts = Append(@, "none")]

etag_gate(variant, s, now, depth) ==
    LET q == s.q
        ranged == "range" \in DOMAIN q.hdrs
        sent == "if-none-match" \in DOMAIN q.hdrs
        inm == IF sent THEN q.hdrs["if-none-match"] ELSE <<>>
        applies == CASE variant = "connect" -> q.method = "GET" /\ ~ranged /\ sent
                     [] variant = "factory" -> q.method \notin regex_head /\ ~ranged
                     [] variant = "route" -> q.method = "GET" /\ ~ranged
        cached == q.href \in DOMAIN s.etags
        fresh == applies /\ cached /\ (variant = "connect" \/ inm # <<>>)
                 /\ unquote(inm) = s.etags[q.href].etag
    IN  IF ~fresh THEN [s EXCEPT !.nexts = Append(@, "none")]
        ELSE Bind(Apply(s.etags[q.href].headers,
                    << set(TRUE, "age", now - s.etags[q.href].timestamp),
                       delete(variant = "factory", "content-encoding"),
                       delete(variant = "factory", "transfer-encoding") >>), LAMBDA h :
                IF variant = "route"
                THEN respond_emit("route", s, NO_CONTENT, NOT_MODIFIED,
                                  headers("route", q, h, NOT_MODIFIED), FALSE, now, depth)
                ELSE Bind(respond_emit("pipeline", s, NO_CONTENT, NOT_MODIFIED, h, FALSE, now, depth),
                          LAMBDA r :
                        IF variant = "connect" /\ r.rejected # 0
                        THEN [r EXCEPT !.nexts = Append(@, "error")] ELSE r))

\* STALE, the default life of a proxied representation
STALE == 60000

\* regex.number /\d{1,}/ on a Cache-Control value: the first run of digits,
\* -1 when there is none
regex_number(value) ==
    CASE value = "max-age=0" -> 0
      [] value = "max-age=1" -> 1
      [] value = "max-age=2" -> 2
      [] OTHER -> -1

\* number.diff( a, b ): the distance of two numbers
number_diff(a, b) == IF a < b THEN b - a ELSE a - b

\* setTimeout( fn, ms ) for fn = unregister( url ); the clock counts seconds
setTimeout(s, url, ms, now) ==
    [s EXCEPT !.timers = @ \cup {[url |-> url, due |-> now + (ms \div 1000)]}]

\* proxy(): handle() decides how long the representation is valid. Expires
\* is a date, in seconds on the model's clock and in milliseconds as a Date
expiry(s, hdrs, status, now) ==
    IF s.q.method = "GET" /\ status \in {SUCCESS, NOT_MODIFIED} /\ ~nocache(hdrs) /\ ~private(hdrs)
    THEN Bind(IF "cache-control" \in DOMAIN hdrs /\ regex_number(hdrs["cache-control"]) # -1
              THEN regex_number(hdrs["cache-control"])
              ELSE IF "expires" \in DOMAIN hdrs
              THEN number_diff(hdrs["expires"] * 1000, now * 1000)
              ELSE STALE, LAMBDA stale :
            IF stale > 0 THEN setTimeout(s, s.q.href, stale * 1000, now) ELSE s)
    ELSE s

\* proxy(): the answer of handle( req, res, headers, status, arg )
proxy_answer(s, hdrs, status, arg, now, depth) ==
    LET q == s.q
        get == q.method = "GET"
        via == Apply(hdrs, << set("server" \in DOMAIN hdrs, "via", "upstream"),
                              set(TRUE, "server", config_headers["server"]) >>)
    IN  IF status >= BAD_REQUEST
        THEN respond_emit("pipeline", s, arg, status,
                          ("cache-control" :> "no-cache") @@ ("content-length" :> Len(arg)),
                          FALSE, now, depth)
        ELSE IF status = NOT_MODIFIED
        THEN respond_emit("pipeline", s, arg, status, via, FALSE, now, depth)
        ELSE Bind(Apply(via,
                    << default(get /\ status = SUCCESS, "etag",
                               quote(etag(q.href,
                                          IF "content-length" \in DOMAIN hdrs
                                          THEN hdrs["content-length"] ELSE 0, 0))),
                       default(TRUE, "allow", "GET") >>), LAMBDA h :
                IF get /\ "if-none-match" \in DOMAIN q.hdrs /\ "etag" \in DOMAIN h
                   /\ status = SUCCESS /\ q.hdrs["if-none-match"] = h["etag"]
                THEN respond_emit("pipeline", s, NO_CONTENT, NOT_MODIFIED,
                                  Apply(h, << set(q.href \in DOMAIN s.etags, "age",
                                                  IF q.href \in DOMAIN s.etags
                                                  THEN now - s.etags[q.href].timestamp ELSE 0) >>),
                                  FALSE, now, depth)
                ELSE respond_emit("pipeline", s,
                                  IF q.method \in regex_head THEN NO_CONTENT ELSE arg,
                                  status, h, FALSE, now, depth))

\* proxy(): handle( req, res, headers, status, arg ) on the upstream's answer
proxy_handle(s, hdrs, status, arg, now, depth) ==
    IF status >= BAD_REQUEST THEN proxy_answer(s, hdrs, status, arg, now, depth)
    ELSE proxy_answer(expiry(s, hdrs, status, now), hdrs, status, arg, now, depth)

\* regex.refused: /ECONNREFUSED/ on the message of the upstream error
regex_refused == {"ECONNREFUSED"}
UpstreamErrors == {"ECONNREFUSED", "ECONNRESET", "ETIMEDOUT"}

\* proxy(): the "error" listener of the upstream request. The status is read
\* from CODES by name and handed to error(), which replaces a status that is
\* not a number: 404 for a get method, else 500, the proxied route being
\* set for every verb
proxy_error(gen, s, message, now, depth) ==
    LET status == CODES(IF message \in regex_refused THEN "SERVER_UNAVAILABLE"
                        ELSE "SERVER_ERROR")
    IN  error_emit(gen, s,
                   IF status # 0 THEN status
                   ELSE IF s.q.method \in regex_get THEN NOT_FOUND
                   ELSE SERVER_ERROR,
                   now, depth)

\* watch(): the listener of fs.watch on the file behind url; a rename cleans
\* up, a change rewrites the cached value in place and registers it again
watch_change(gen, s, url, rename, size, mtime, now) ==
    IF rename \/ url \notin DOMAIN s.etags THEN unregister(s, url)
    ELSE Bind([s.etags[url] EXCEPT !.etag = etag(url, size, mtime), !.timestamp = now],
              LAMBDA value :
            register(gen, [s EXCEPT !.etags = Put(@, url, value)], url, value, TRUE))

\* ------------------------------------------------------- serving: the state
Gens == {"route", "pipeline"}
Urls == {"/x", "/y"}

\* a request as the emission operators see it; zip: compression() chose a
\* type; exist, fsize: the side file as compress() finds it; fail: "read" when
\* zlib or a read stream reports an error, "write" when the side file cannot
\* be written
Request(method, href, hdrs, cors, env) ==
    [method |-> method, href |-> href, allow |-> "GET, HEAD, OPTIONS", cors |-> cors,
     hdrs |-> hdrs, zip |-> env.zip, exist |-> env.exist, fail |-> env.fail, fsize |-> 5]

Env(zip, exist, fail) == [zip |-> zip, exist |-> exist, fail |-> fail]
Calm == Env(FALSE, FALSE, "none")
Envs == {Calm, Env(FALSE, FALSE, "read"), Env(TRUE, FALSE, "none"),
         Env(TRUE, TRUE, "none"), Env(TRUE, FALSE, "read"), Env(TRUE, TRUE, "read")}

NoHeaders == [k \in {} |-> 0]
Header(k, v) == k :> v

\* the headers a handler hands to respond()
HandlerHeaders ==
    { Header("content-type", "text/plain"),
      Header("cache-control", "no-store"),
      Header("cache-control", "private"),
      Header("etag", quote(<<"v1">>)) @@ Header("access-control-allow-private-network", "true") }

\* the headers handle() builds from the stat of a file
StatHeaders(url) ==
    Header("content-length", 3) @@ Header("content-type", mime)
    @@ Header("etag", quote(etag(url, 3, 0))) @@ Header("last-modified", "mtime")

\* body and file flag as handlers pass them
Payloads == { [body |-> NO_CONTENT, file |-> FALSE],
              [body |-> <<"x", "y", "z">>, file |-> FALSE],
              [body |-> <<"path">>, file |-> TRUE] }

RangeHeaders == {"bytes=0-1", "bytes=1-1", "bytes=2-1", "bytes=1-", "bytes=a-b"}

\* If-None-Match values: the stored validators quoted and bare, and a stale one
Validators(url) == { quote(<<"v1">>), <<"v1">>, quote(etag(url, 3, 0)), quote(<<"old">>) }

RequestHeaders(url) ==
    {NoHeaders} \cup {Header("range", r) : r \in RangeHeaders}
                \cup {Header("if-none-match", v) : v \in Validators(url)}
                \cup {Header("if-none-match", quote(<<"v1">>)) @@ Header("range", "bytes=0-1")}

Idle == Request("GET", "/x", NoHeaders, FALSE, Calm)

\* the last serving operation: its request and arguments, the cache and the
\* clock it started from, and what it emitted; n counts the operations
Served(gen, op, n, q, x, before, now, r) ==
    [gen |-> gen, op |-> op, n |-> n, q |-> q, x |-> x, before |-> before, now |-> now, r |-> r]

NoArgs == [status |-> 0, hdrs |-> NoHeaders, body |-> NO_CONTENT, file |-> FALSE, variant |-> "none"]

\* the disk: resolved path (segments below the vhost root, leading ".." above
\* it) -> what lstat sees there
File(data, mtime) == [kind |-> "file", data |-> data, mtime |-> mtime]
Dir == [kind |-> "dir", data |-> <<>>, mtime |-> 0]
Docroot ==
    (<<>> :> Dir) @@ (<<"a">> :> Dir) @@ (<<"a", "f.txt">> :> File(<<"h", "i">>, 0))
    @@ (<<"a", "index.htm">> :> File(<<"i", "d", "x">>, 0))
    @@ (<<"a", "index.html">> :> File(<<"h", "t", "m", "l">>, 0))
    @@ (<<"index.html">> :> File(<<"h", "t", "m", "l">>, 0))
    @@ (<<"..">> :> Dir) @@ (<<"..", "a">> :> Dir)
    @@ (<<"..", "a", "f.txt">> :> File(<<"k", "e", "y">>, 0))

\* ---------------------------------------------------------------- files
\* a request path is a sequence of segments (named, "." and "..") and a
\* trailing slash; "/" is the empty sequence with the slash
Segments == {"a", "f.txt", ".", ".."}
MaxSegs == 5
Pathnames(n) == UNION {[1..k -> Segments] : k \in 0..n}

\* req.parsed.href: the text of the path; "a/" splits into "a" and ""
Href(segs, slash) == ToString(IF slash THEN Append(segs, "") ELSE segs)

REDIRECT == 307
EXPECTATION_FAILED == 417

\* regex.ext on a segment: it carries an extension
ext(seg) == seg \in {"f.txt", "index.htm"}

\* the first segment that is not "." is ".."
invalid(segs) ==
    LET kept == SelectSeq(segs, LAMBDA i : i # ".")
    IN  kept # <<>> /\ kept[1] = ".."

\* matches of /\.{2}\//g: the ".." segments that a slash follows
out_dir(segs, slash) ==
    IF invalid(segs) THEN 0
    ELSE Cardinality({i \in 1..Len(segs) : segs[i] = ".." /\ (i < Len(segs) \/ slash)})

\* matches of /\w+?(\.\w+|\/)+/g: the named segments that carry an extension
\* or that a slash follows
in_dir(segs, slash) ==
    IF invalid(segs) THEN 0
    ELSE Cardinality({i \in 1..Len(segs) :
            segs[i] \notin {".", ".."} /\ (ext(segs[i]) \/ i < Len(segs) \/ slash)})

\* "are we still in the virtual host root?"
in_root(segs, slash) ==
    ~(invalid(segs) \/ (out_dir(segs, slash) > 0 /\ out_dir(segs, slash) >= in_dir(segs, slash)))

\* path.join( root, pathname ): "." dropped, ".." removes the segment before it
RECURSIVE normalize(_, _)
normalize(at, segs) ==
    IF segs = <<>> THEN at
    ELSE LET i == Head(segs)
             to == IF i = "." THEN at
                   ELSE IF i # ".." THEN Append(at, i)
                   ELSE IF at # <<>> /\ at[Len(at)] # ".." THEN SubSeq(at, 1, Len(at) - 1)
                   ELSE Append(at, i)
         IN  normalize(to, Tail(segs))

\* the file system resolves root + pathname segment by segment: every
\* segment but the last is looked up in a directory that exists
RECURSIVE walk(_, _, _)
walk(files, at, segs) ==
    IF segs = <<>> THEN [ok |-> at \in DOMAIN files, at |-> at]
    ELSE IF at \notin DOMAIN files \/ files[at].kind # "dir" THEN [ok |-> FALSE, at |-> at]
    ELSE walk(files, normalize(at, <<Head(segs)>>), Tail(segs))

\* fs.lstat( path ): the 5.x request() joins the path first, the 3.x one
\* concatenates root and pathname
lstat(gen, files, segs) ==
    IF gen = "pipeline"
    THEN [ok |-> normalize(<<>>, segs) \in DOMAIN files, at |-> normalize(<<>>, segs)]
    ELSE walk(files, <<>>, segs)

\* a call of fs on a resolved path
fs(s, op, at) == [s EXCEPT !.fsops = Append(@, [op |-> op, at |-> at])]

\* req.allow and allow.indexOf( verb ) > -1
ALLOW_READ == "GET, HEAD, OPTIONS"
ALLOW_ALL == "DELETE, GET, HEAD, OPTIONS, POST, PUT"
indexOf(list, verb) ==
    verb \in (IF list = ALLOW_ALL THEN {"DELETE", "GET", "HEAD", "OPTIONS", "POST", "PUT"}
              ELSE {"GET", "HEAD", "OPTIONS"})

\* array.remove( string.explode( allow ), "POST" ).join( ", " )
remove_post(list) == IF list = ALLOW_ALL THEN "DELETE, GET, HEAD, OPTIONS, PUT" ELSE list

\* this.page( status, this.hostname( req ) ): the text of the status page
status_page == <<"p", "a", "g", "e">>

\* deferred.reject( new Error( status ) ) in 5.x, where a promise keeps its
\* first rejection; this.error( req, res, status ) in 3.x
reject(gen, s, status, now, depth) ==
    IF gen = "pipeline" THEN (IF s.rejected # 0 THEN s ELSE [s EXCEPT !.rejected = status])
    ELSE error_emit(gen, s, status, now, depth)

\* the same where 3.x calls this.error( req, req, status ): the request takes
\* the place of the response and the client is written nothing
reject_req(gen, s, status) ==
    IF gen = "pipeline" THEN [s EXCEPT !.rejected = status] ELSE s

\* the precondition of write(): only the request header "etag" is read
precondition(hdrs, tag) == "etag" \notin DOMAIN hdrs \/ hdrs["etag"] = tag

\* write( req, res, path )
write(gen, s, at, body, now, depth) ==
    LET q == s.q
        put == q.method = "PUT"
        del == indexOf(q.allow, "DELETE")
    IN  IF ~put /\ q.slash
        THEN respond_emit(gen, s, status_page, IF del THEN CONFLICT ELSE SERVER_ERROR,
                          Header("allow", q.allow), FALSE, now, depth)
        ELSE Bind(fs(s, "lstat", at), LAMBDA t :
                IF at \notin DOMAIN t.disk THEN reject(gen, t, NOT_FOUND, now, depth)
                ELSE LET stat == t.disk[at]
                         tag == quote(etag(q.href, Len(stat.data), stat.mtime))
                     IN  IF precondition(q.hdrs, tag)
                         THEN Bind(fs(t, "write", at), LAMBDA u :
                                \* fs.writeFile on a directory fails
                                IF stat.kind = "dir" THEN reject_req(gen, u, SERVER_ERROR)
                                ELSE respond_emit(gen,
                                        [u EXCEPT !.disk = Put(@, at, File(body, now))], status_page,
                                        IF put THEN NO_CONTENT_STATUS ELSE CREATED,
                                        Header("allow", remove_post(q.allow)), FALSE, now, depth))
                         ELSE respond_emit(gen, t, NO_CONTENT, FAILED, NoHeaders, FALSE,
                                           now, depth))

\* fs.unlink( path ) and its callback; a directory is not unlinked, and
\* q.fail = "unlink" is the disk failing
unlink(gen, s, at, now, depth) ==
    Bind(fs(s, "unlink", at), LAMBDA t :
        IF t.disk[at].kind = "dir" \/ t.q.fail = "unlink" THEN reject_req(gen, t, SERVER_ERROR)
        ELSE respond_emit(gen, [t EXCEPT !.disk = [p \in DOMAIN @ \ {at} |-> @[p]]],
                          NO_CONTENT, NO_CONTENT_STATUS, NoHeaders, FALSE, now, depth))

\* handle( req, res, path, url, dir, stat ): the 5.x handle() holds the
\* root check, for files only
handle(gen, s, at, lpath, url, dir, body, now, depth) ==
    LET q == s.q
        method == q.method
        can_write == indexOf(q.allow, IF dir THEN "POST" ELSE "PUT")
        del == indexOf(q.allow, "DELETE")
        stat == s.disk[at]
        tag == quote(etag(url, Len(stat.data), stat.mtime))
        hdrs == Header("allow", q.allow) @@ Header("content-length", Len(stat.data))
                @@ Header("content-type", mime) @@ Header("etag", tag)
                @@ Header("last-modified", "mtime")
        current == "if-none-match" \in DOMAIN q.hdrs /\ q.hdrs["if-none-match"] = tag
        \* req.path = path, "decorating path for watcher"
        decorated == [s EXCEPT !.q = [path |-> lpath] @@ @]
    IN  IF ~dir
        THEN IF gen = "pipeline" /\ ~in_root(q.segs, q.slash)
             THEN reject(gen, s, NOT_FOUND, now, depth)
             ELSE IF method \in regex_get
             THEN IF method # "GET"
                  THEN respond_emit(gen, s, NO_CONTENT, SUCCESS, hdrs, TRUE, now, depth)
                  ELSE IF current
                  THEN respond_emit(gen, decorated, NO_CONTENT, NOT_MODIFIED, hdrs, TRUE,
                                    now, depth)
                  ELSE Bind(respond_emit(gen, decorated, <<"path">>, SUCCESS, hdrs, TRUE,
                                         now, depth),
                         LAMBDA r :
                            \* fs.createReadStream( body ) of the file branch
                            IF \E i \in DOMAIN r.sent : r.sent[i].mode = "file"
                            THEN fs(r, "read", at) ELSE r)
             ELSE IF method = "DELETE" /\ del
             THEN unlink(gen, unregister(s, q.href), at, now, depth)
             ELSE IF method = "PUT" /\ can_write THEN write(gen, s, at, body, now, depth)
             ELSE reject_req(gen, s, SERVER_ERROR)
        ELSE IF method \in {"POST", "PUT"} /\ can_write THEN write(gen, s, at, body, now, depth)
             ELSE IF method = "DELETE" /\ del
             THEN unlink(gen, unregister(s, q.href), at, now, depth)
             ELSE reject(gen, s, NOT_ALLOWED, now, depth)

\* this.config.index, and the configurations explored
config_index == <<"index.htm", "index.html">>
Indexes == {<<>>, config_index}

\* the orders in which the callbacks of n calls of fs.lstat can complete
Completions(n) == {o \in [1..n -> 1..n] : \A i, j \in 1..n : o[i] = o[j] => i = j}

\* array.each( this.config.index, ... ): every fs.lstat is issued at once
RECURSIVE stat_all(_, _, _)
stat_all(s, at, names) ==
    IF names = <<>> THEN s
    ELSE stat_all(fs(s, "lstat", Append(at, Head(names))), at, Tail(names))

\* the callbacks of those calls in the order they complete: the first one
\* without an error handles the request (handled = true), an error counts, and
\* the count reaching the length of the list rejects with 404
RECURSIVE index(_, _, _, _, _, _, _, _, _)
index(gen, s, at, names, order, count, body, now, depth) ==
    IF order = <<>> THEN s
    ELSE LET i == names[Head(order)]
             npath == Append(at, i)
         IN  IF npath \in DOMAIN s.disk
             THEN handle(gen, s, npath,
                         IF gen = "pipeline" THEN npath ELSE Append(s.q.segs, i),
                         Href(Append(s.q.segs, i), FALSE),
                         FALSE, body, now, depth)
             ELSE IF count + 1 = Len(names) THEN reject(gen, s, NOT_FOUND, now, depth)
             ELSE index(gen, s, at, names, Tail(order), count + 1, body, now, depth)

\* request( req, res ) past the Expect test: the 3.x request() holds the root
\* check, ahead of fs.lstat
request_path(gen, s, body, now, depth) ==
    LET q == s.q
        l == lstat(gen, s.disk, q.segs)
        \* the path as the handler names it: joined in 5.x, root + pathname in 3.x
        lpath == IF gen = "pipeline" THEN l.at ELSE q.segs
    IN  IF gen = "route" /\ ~in_root(q.segs, q.slash)
        THEN error_emit(gen, s, NOT_FOUND, now, depth)
        ELSE Bind(fs(s, "lstat", l.at), LAMBDA t :
                IF ~l.ok THEN reject(gen, t, NOT_FOUND, now, depth)
                ELSE IF t.disk[l.at].kind # "dir"
                THEN handle(gen, t, l.at, lpath, q.href, FALSE, body, now, depth)
                ELSE IF q.method \in regex_get /\ ~q.slash
                THEN respond_emit(gen, t, NO_CONTENT, REDIRECT,
                                  Header(IF gen = "route" THEN "Location" ELSE "location",
                                         Href(q.segs, TRUE)), FALSE, now, depth)
                ELSE IF q.method \notin regex_get
                THEN handle(gen, t, l.at, lpath, q.href, TRUE, body, now, depth)
                ELSE index(gen, stat_all(t, l.at, q.index), l.at, q.index,
                           q.order, 0, body, now, depth))

\* request( req, res ): the file handler. With an Expect header the 3.x
\* request() returns the error; the 5.x one rejects the promise and goes on
request_file(gen, s, body, now, depth) ==
    IF "expect" \notin DOMAIN s.q.hdrs THEN request_path(gen, s, body, now, depth)
    ELSE IF gen = "route" THEN error_emit(gen, s, EXPECTATION_FAILED, now, depth)
    ELSE request_path(gen, reject(gen, s, EXPECTATION_FAILED, now, depth), body, now, depth)

\* cleanup() of watch(): the listener is closed, its url unregistered
cleanup(s, url, path) ==
    [unregister(s, url) EXCEPT !.watching = [p \in DOMAIN @ \ {path} |-> @[p]]]

\* the listener of fs.watch( path ): a rename cleans up; a change stats the
\* path again and registers the entry of the url under the new etag
watch_event(gen, s, path, rename, now) ==
    LET url == s.watching[path]
        l == lstat(gen, s.disk, path)
    IN  IF rename THEN cleanup(s, url, path)
        ELSE Bind(fs(s, "lstat", l.at), LAMBDA t :
                IF ~l.ok \/ url \notin DOMAIN t.etags THEN cleanup(t, url, path)
                ELSE watch_change(gen, t, url, FALSE, Len(t.disk[l.at].data),
                                  t.disk[l.at].mtime, now))

\* the side files of unregister(): <tmp>/<etag>.gz and <tmp>/<etag>.zz
Exts == {"gz", "zz"}
SideFile(tag, type) == [etag |-> tag, type |-> type]

\* compress() calls that may be under way at once
MaxRequests == 2
Resting ==
    [phase |-> "none", url |-> "", fp |-> SideFile(<<>>, "gz"), lost |-> FALSE,
     answer |-> "none", status |-> 0]

InitServing(gens) ==
    /\ etags = NoHeaders
    /\ disk = Docroot
    /\ clock = 0
    /\ watching = NoWatch
    /\ timers = {}
    /\ tmp = {}
    /\ sweeping = {}
    /\ streams = [k \in 1..MaxRequests |-> Resting]
    /\ handles = <<>>
    /\ served \in {Served(g, "start", 0, Idle, NoArgs, NoHeaders, 0,
                           Emission(NoHeaders, Docroot, Idle)) : g \in gens}


\* ---------------------------------------------------------------- state
Handler(n, kind) == [params |-> n, kind |-> kind]

RECURSIVE Chains(_, _)
Chains(n, params) ==
    IF n = 0 THEN {<<>>}
    ELSE LET shorter == Chains(n - 1, params)
         IN  shorter \cup {Append(c, Handler(p, "user")) :
                              c \in {d \in shorter : Len(d) = n - 1}, p \in params}

connectMw == Handler(3, "connect")

InitReq(e, m, h) ==
    [entry |-> e, method |-> m, hostname |-> h, invalid |-> FALSE, body |-> <<>>,
     payload |-> <<>>, listening |-> FALSE, ended |-> FALSE, stage |-> "accepted"]

InitRunner(chain) ==
    [chain |-> chain, it |-> 0, started |-> <<>>, called |-> {}, extra |-> 0]

InitRest ==
    /\ res = [_header |-> 0, heads |-> 0, body |-> NO_CONTENT, ends |-> 0]
    /\ promise = [connect |-> "none", route |-> "none", reason |-> 0,
                  extended |-> "undefined", handled |-> FALSE]
    /\ obs = [request |-> FALSE]
    /\ ev = Event("accept", "none", 0)
    /\ allow \in [get : BOOLEAN, method : BOOLEAN]
    /\ (req.method \in regex_get => allow.get)
    /\ (req.method \in regex_get \/ req.entry # "pipeline" => allow.method)
    /\ InitRouting

\* a request behind route()/run() or pipeline(), no body limit configured
InitRun ==
    /\ config \in [catchAll : BOOLEAN, maxBytes : {0}, default : {ALL}]
    /\ \E e \in {"route", "pipeline"}, m \in Methods \ regex_body, h \in Hostnames : req = InitReq(e, m, h)
    /\ \E c \in Chains(MaxHandlers, Params) : run = InitRunner(c)
    /\ InitRest
    /\ InitServing({"pipeline"})

\* a request under a body limit, through any of the three entries
InitBody ==
    /\ config \in [catchAll : BOOLEAN, maxBytes : 0..MaxBytesCfg, default : {ALL}]
    /\ \E e \in Entries, m \in {"GET", "POST", "PUT"} : req = InitReq(e, m, "a")
    /\ \E c \in Chains(MaxBodyHandlers, {3, 4}) :
          run = InitRunner(IF req.entry = "router" THEN <<connectMw>> \o c ELSE c)
    /\ InitRest
    /\ InitServing({"pipeline"})

\* --------------------------------------------------------------- actions
over(payload) == config.maxBytes > 0 /\ byteLength(payload) > config.maxBytes

IsStarted(k) == \E i \in 1..Len(run.started) : run.started[i].h = k

\* variant: the entry runs the chain at once for every method
Dispatch_eager ==
    /\ req.stage = "accepted"
    /\ LET s0 == [Step("dispatch") EXCEPT !.req.stage = "dispatched",
                                          !.req.listening = req.method \in regex_body]
       IN  CASE req.entry = "route" -> Set(next(s0, "none", 0))
             [] req.entry = "pipeline" -> Set([s0 EXCEPT !.promise.connect = "resolved"])
             [] req.entry = "router" -> Set(next(s0, "none", 0))
    /\ UNCHANGED <<config, allow, routing, serving>>

\* route() after decoration / pipeline(): connect() / router: run()
Dispatch ==
    /\ req.stage = "accepted"
    /\ LET s0 == [Step("dispatch") EXCEPT !.req.stage = "dispatched"]
       IN  CASE req.entry = "route" ->
                  IF req.method \in regex_body
                  THEN Set([s0 EXCEPT !.req.listening = TRUE])
                  ELSE Set(next(s0, "none", 0))
             [] req.entry = "pipeline" ->
                  IF req.method \in regex_body
                  THEN Set([s0 EXCEPT !.req.listening = TRUE, !.promise.connect = "pending"])
                  ELSE Set([s0 EXCEPT !.promise.connect = "resolved"])
             [] req.entry = "router" -> Set(next(s0, "none", 0))
    /\ UNCHANGED <<config, allow, routing, serving>>

\* the body of the connect middleware, run when the runner invokes it
ConnectStart ==
    /\ req.entry = "router"
    /\ req.stage = "dispatched"
    /\ IsStarted(1)
    /\ LET s0 == [Step("connect") EXCEPT !.req.stage = "connected"]
       IN  IF req.method \in regex_body
           THEN Set([s0 EXCEPT !.req.listening = TRUE])
           ELSE Set(next(called(s0, 1), "none", 1))
    /\ UNCHANGED <<config, allow, routing, serving>>

\* req.on( "data" )
Data(n) ==
    /\ req.listening
    /\ ~req.ended
    /\ Len(req.payload) < MaxChunks
    /\ LET p == Append(req.payload, n)
           s0 == [Step("data") EXCEPT !.req.payload = p]
           s1 == [s0 EXCEPT !.req.invalid = TRUE]
       IN  IF ~over(p) THEN Set(s0)
           ELSE CASE req.entry = "route" -> Set(error_route(s1, REQ_TOO_LARGE, "undefined"))
                  [] req.entry = "pipeline" ->
                       Set(IF s1.promise.connect = "pending"
                           THEN [s1 EXCEPT !.promise.connect = "rejected",
                                           !.promise.reason = REQ_TOO_LARGE,
                                           !.ev.out = "reject",
                                           !.ev.status = REQ_TOO_LARGE]
                           ELSE s1)
                  [] req.entry = "router" -> Set(next(called(s1, 1), "413", 1))
    /\ UNCHANGED <<config, allow, routing, serving>>

\* req.on( "end" )
End ==
    /\ req.listening
    /\ ~req.ended
    /\ LET s0 == [Step("end") EXCEPT !.req.ended = TRUE]
           s1 == [s0 EXCEPT !.req.body = IF req.payload # <<>> THEN req.payload ELSE @]
       IN  IF req.invalid THEN Set(s0)
           ELSE CASE req.entry = "route" -> Set(next(s1, "none", 0))
                  [] req.entry = "pipeline" ->
                       Set(IF s1.promise.connect = "pending"
                           THEN [s1 EXCEPT !.promise.connect = "resolved",
                                           !.ev.out = "resolve"]
                           ELSE s1)
                  [] req.entry = "router" -> Set(next(called(s1, 1), "none", 1))
    /\ UNCHANGED <<config, allow, routing, serving>>

\* pipeline(): connect resolved, route() builds the iterator and delays next()
PipelineRoute ==
    /\ req.entry = "pipeline"
    /\ promise.connect = "resolved"
    /\ promise.route = "none"
    /\ Set(next([St EXCEPT !.promise.route = "pending"], "none", 0))
    /\ UNCHANGED <<config, allow, routing, serving>>

\* the rejection handler start() chains to pipeline(): it hands the Error
\* object itself to error() as the status, which is not a number
PipelineRejected ==
    /\ req.entry = "pipeline"
    /\ ~promise.handled
    /\ promise.connect = "rejected" \/ promise.route = "rejected"
    /\ Set(error_pipeline([Step("rejected") EXCEPT !.promise.handled = TRUE], 0, promise.extended))
    /\ UNCHANGED <<config, allow, routing, serving>>

\* a started handler calls its continuation, with or without an error
HandlerNext(k, err) ==
    /\ IsStarted(k)
    /\ run.chain[k].kind = "user"
    /\ k \in run.called => run.extra < MaxExtraCalls
    /\ Set(next(called(St, k), err, k))
    /\ UNCHANGED <<config, allow, routing, serving>>

\* a started handler throws: the runner's catch calls next( e )
HandlerThrow(k) ==
    /\ IsStarted(k)
    /\ run.chain[k].kind = "user"
    /\ k \in run.called => run.extra < MaxExtraCalls
    /\ Set(next(called(St, k), "boom", k))
    /\ UNCHANGED <<config, allow, routing, serving>>

\* a started handler answers the request itself
HandlerRespond(k, status) ==
    /\ IsStarted(k)
    /\ run.chain[k].kind = "user"
    /\ res._header = 0
    /\ Set(respond(Step("respond"), <<"handler", k>>, status))
    /\ UNCHANGED <<config, allow, routing, serving>>

HandlerStep ==
    \/ \E k \in 1..Len(run.chain), e \in HandlerErrors \cup {"none"} : HandlerNext(k, e)
    \/ \E k \in 1..Len(run.chain) : HandlerThrow(k)
    \/ \E k \in 1..Len(run.chain), st \in RespondStatuses : HandlerRespond(k, st)

NextRun ==
    \/ Dispatch
    \/ PipelineRoute
    \/ PipelineRejected
    \/ HandlerStep

NextBody ==
    \/ NextRun
    \/ ConnectStart
    \/ \E n \in 1..2 : Data(n)
    \/ End

SpecRun == InitRun /\ [][NextRun]_vars
SpecBody == InitBody /\ [][NextBody]_vars

\* ------------------------------------------------------- routing actions
\* an instance that serves no request while its tables are exercised
InitIdle ==
    /\ config = [catchAll |-> TRUE, maxBytes |-> 0, default |-> ALL]
    /\ req = InitReq("route", "GET", "a")
    /\ run = InitRunner(<<>>)
    /\ allow = [get |-> TRUE, method |-> TRUE]
    /\ InitRest
    /\ InitServing({"pipeline"})

runner0 == <<config, req, res, run, promise, obs, ev, allow>>
runner == <<runner0, serving>>

Use(path, hst, method) ==
    /\ Len(registered) < MaxUse
    /\ \E r \in {use(Rt, path, Fns[Len(registered) + 1], hst, method)} : SetRt(r)
    /\ call' = Call("use", call.n)
    /\ UNCHANGED runner

Blacklist(fn) ==
    /\ \E i \in 1..Len(registered) : registered[i].fn = fn
    /\ hash(fn) \notin noaction
    /\ \E r \in {blacklist(Rt, fn)} : SetRt(r)
    /\ call' = Call("blacklist", call.n)
    /\ UNCHANGED runner

Host(arg) ==
    /\ \A i \in 1..Len(vhosts) : vhosts[i] # arg
    /\ \E r \in {host(Rt, arg)} : SetRt(r)
    /\ call' = Call("host", call.n)
    /\ UNCHANGED runner

Routes(uri, hst, method, override) ==
    /\ call.n < MaxCalls
    /\ \E r \in {routes(Rt, uri, hst, method, override)} :
           /\ SetRt(r)
           /\ call' = [Call("routes", call.n + 1) EXCEPT !.uri = uri, !.host = hst,
                          !.method = method, !.override = override,
                          !.cold = r.cold, !.result = r.result]
    /\ UNCHANGED runner

Allows(uri, hst, override) ==
    /\ call.n < MaxCalls
    /\ \E r \in {allows(Rt, uri, hst, override)} :
           /\ SetRt(r)
           /\ call' = [Call("allows", call.n + 1) EXCEPT !.uri = uri, !.host = hst,
                          !.override = override, !.result = r.result]
    /\ UNCHANGED runner

Decorate(hostname, pathname, loop) ==
    /\ call.n < MaxCalls
    /\ \E r \in {decorate(Rt, hostname, pathname, loop)} :
           /\ Len(r.registered) <= MaxUse
           /\ SetRt(r)
           /\ call' = [Call("decorate", call.n + 1) EXCEPT !.uri = pathname,
                          !.hostname = hostname, !.loop = loop, !.host = r.result.vhost,
                          !.override = r.result.update, !.result = r.result.allow]
    /\ UNCHANGED runner

NextRoutes ==
    \/ \E path \in {"/.*", "/a"}, hst \in {ALL, "b"}, method \in {ALL, "get"} : Use(path, hst, method)
    \/ \E fn \in {"f"} : Blacklist(fn)
    \/ \E uri \in {"/A", "/b"}, hst \in {ALL, "b"}, override \in BOOLEAN : Routes(uri, hst, "get", override)
    \/ \E uri \in {"/A", "/b"}, hst \in {ALL, "b"} : Allows(uri, hst, FALSE)

NextVhost ==
    \/ \E arg \in {"a*", "*"} : Host(arg)
    \/ \E method \in {"get", "post"} : Use("/.*", ALL, method)
    \/ \E uri \in {"/a", "/a+"}, hst \in {ALL, "a*"} : Allows(uri, hst, FALSE)
    \/ \E hostname \in {"a", "b"}, pathname \in {"/a", "/a+"}, loop \in Loops :
           Decorate(hostname, pathname, loop)

SpecRoutes == InitIdle /\ [][NextRoutes]_vars
SpecVhost == InitIdle /\ [][NextVhost]_vars

\* ---------------------------------------------------------------- serving
MaxNest == 2
MaxClock == 1
MaxOps == 2
MaxFetch == 3
MaxTime == 3

rest == <<runner0, routing, side>>

\* between two events
Waiting == served.op \in {"start", "idle"}
Ready == Waiting /\ served.n < MaxOps

\* the state as a serving operation finds it
Emitting(q) == [Emission(etags, disk, q) EXCEPT !.watching = watching, !.timers = timers]

\* the outcome of a serving operation becomes the state
Serve(op, q, x, r) ==
    /\ etags' = r.etags
    /\ disk' = r.disk
    /\ watching' = r.watching
    /\ timers' = r.timers
    /\ served' = Served(served.gen, op, served.n + 1, q, x, etags, clock, r)
    /\ UNCHANGED <<clock, rest>>

\* a handler answers through respond()
Respond(method, href, status, hdrs, payload, reqh, cors, env) ==
    /\ Ready
    /\ env # Calm => status = SUCCESS /\ payload.body # NO_CONTENT
    /\ cors => hdrs = Header("content-type", "text/plain") /\ reqh = NoHeaders
    /\ \E q \in {Request(method, href, reqh, cors, env)} :
       \E r \in {respond_emit(served.gen, Emitting(q), payload.body, status, hdrs,
                              payload.file, clock, MaxNest)} :
           Serve("respond", q, [NoArgs EXCEPT !.status = status, !.hdrs = hdrs,
                                              !.body = payload.body, !.file = payload.file], r)

\* the etag middleware is reached by a request
Gate(variant, method, href, reqh) ==
    /\ Ready
    /\ variant \in GateVariants(served.gen)
    /\ variant = "factory" => method \in regex_get
    /\ \E q \in {Request(method, href, reqh, FALSE, Calm)} :
       \E r \in {etag_gate(variant, Emitting(q), clock, MaxNest)} :
           Serve("gate", q, [NoArgs EXCEPT !.variant = variant], r)

\* the upstream of a proxied route answers
Proxied(method, href, status, hdrs, arg, reqh) ==
    /\ served.gen = "pipeline"
    /\ \E q \in {Request(method, href, reqh, FALSE, Calm)} :
       \E r \in {proxy_handle(Emitting(q), hdrs, status, arg, clock, MaxNest)} :
           Serve("proxy", q, [NoArgs EXCEPT !.status = status, !.hdrs = hdrs, !.body = arg]
                              @@ [timers |-> timers], r)

Proxy(method, href, status, hdrs, arg, reqh) ==
    /\ Ready
    /\ Proxied(method, href, status, hdrs, arg, reqh)

\* a timer of the proxy handler runs: unregister( url )
Timeout ==
    /\ Waiting \/ served.op = "proxy"
    /\ \E t \in timers :
          /\ t.due <= clock
          /\ etags' = unregister(Emitting(Idle), t.url).etags
          /\ timers' = timers \ {t}
    /\ UNCHANGED <<disk, clock, served, watching, rest>>

\* a second passes after the proxy handler answered; due timers run first
Elapse ==
    /\ Waiting \/ served.op = "proxy"
    /\ clock < MaxTime
    /\ \A t \in timers : t.due > clock
    /\ clock' = clock + 1
    /\ UNCHANGED <<etags, disk, served, watching, timers, rest>>

\* the upstream request of a proxied route fails
ProxyError(method, href, message) ==
    /\ Ready
    /\ \E q \in {Request(method, href, NoHeaders, FALSE, Calm)} :
       \E r \in {proxy_error(served.gen, Emitting(q), message, clock, MaxNest)} :
           Serve("upstream", q, NoArgs @@ [message |-> message], r)

\* fs.watch reports on a watched file
Watch(href, rename) ==
    /\ Ready
    /\ href \in DOMAIN etags
    /\ \E r \in {watch_change(served.gen, Emitting(Idle), href, rename, 4, 1, clock)} :
           Serve("watch", Idle, NoArgs, r)

\* the response is out; the server waits for the next event
Await ==
    /\ ~Waiting
    /\ served' = Served(served.gen, "idle", served.n, Idle, NoArgs, NoHeaders, 0,
                        Emission(NoHeaders, Docroot, Idle))
    /\ UNCHANGED <<etags, disk, clock, watching, timers, rest>>

Tick ==
    /\ Waiting
    /\ clock < MaxClock
    /\ clock' = clock + 1
    /\ UNCHANGED <<etags, disk, served, watching, timers, rest>>

InitCache ==
    /\ config = [catchAll |-> TRUE, maxBytes |-> 0, default |-> ALL]
    /\ req = InitReq("route", "GET", "a")
    /\ run = InitRunner(<<>>)
    /\ allow = [get |-> TRUE, method |-> TRUE]
    /\ InitRest
    /\ InitServing(Gens)

\* the cache side: write-through, gate, watcher
CacheEnvs == {Calm, Env(TRUE, FALSE, "none"), Env(TRUE, FALSE, "read"),
              Env(TRUE, FALSE, "write"), Env(TRUE, TRUE, "read")}

NextCache ==
    \/ \E method \in {"GET", "HEAD", "POST"}, status \in {SUCCESS, NOT_MODIFIED, NOT_FOUND},
          hdrs \in HandlerHeaders, payload \in {p \in Payloads : ~p.file},
          reqh \in {NoHeaders, Header("range", "bytes=0-1")}, cors \in BOOLEAN, env \in CacheEnvs :
           Respond(method, "/x", status, hdrs, payload, reqh, cors, env)
    \/ \E payload \in {p \in Payloads : ~p.file} :
           Respond("GET", "/y", SUCCESS, Header("content-type", "text/plain"), payload,
                   NoHeaders, FALSE, Calm)
    \/ \E variant \in {"connect", "factory", "route"}, method \in {"GET", "HEAD", "POST"},
          reqh \in RequestHeaders("/x") :
           Gate(variant, method, "/x", reqh)
    \/ \E href \in Urls, rename \in BOOLEAN : Watch(href, rename)
    \/ Await
    \/ Tick

\* the emission side: ranges, emission modes, upstream answers
NextEmit ==
    \/ \E method \in {"GET", "HEAD"}, status \in {SUCCESS, NOT_MODIFIED},
          hdrs \in {Header("content-type", "text/plain"), StatHeaders("/x")},
          payload \in Payloads, reqh \in RequestHeaders("/x"), env \in Envs :
           Respond(method, "/x", status, hdrs, payload, reqh, FALSE, env)
    \/ \E variant \in {"connect", "factory", "route"},
          reqh \in {Header("if-none-match", v) : v \in Validators("/x")} :
           Gate(variant, "GET", "/x", reqh)
    \/ \E method \in {"GET", "HEAD"}, status \in {SUCCESS, NOT_MODIFIED, SERVER_ERROR},
          hdrs \in {Header("server", "nginx"), Header("content-type", "text/css")},
          arg \in {NO_CONTENT, <<"u", "p">>},
          reqh \in {NoHeaders, Header("if-none-match", quote(etag("/y", 0, 0)))} :
           Proxy(method, "/y", status, hdrs, arg, reqh)
    \/ \E method \in {"GET", "HEAD", "POST", "PUT", "DELETE"}, message \in UpstreamErrors :
           ProxyError(method, "/y", message)
    \/ Await

SpecCache == InitCache /\ [][NextCache]_vars
SpecEmit == InitCache /\ [][NextEmit]_vars

\* handlers that answer with validators and with the headers of a rate limiter
LimitHeaders ==
    { Header("cache-control", "public"), StatHeaders("/x") }
    \cup { Header("x-ratelimit-limit", v) @@ h :
               v \in {"10", ""},
               h \in { Header("content-type", "text/plain"),
                       Header("cache-control", "public") @@ StatHeaders("/x") } }

NextLimit ==
    \/ \E method \in {"GET", "HEAD", "POST"},
          status \in {SUCCESS, MULTIPLE_CHOICE, NOT_MODIFIED, NOT_FOUND},
          hdrs \in LimitHeaders, payload \in {p \in Payloads : ~p.file} :
           Respond(method, "/x", status, hdrs, payload, NoHeaders, FALSE, Calm)
    \/ Await

SpecLimit == InitCache /\ [][NextLimit]_vars

\* ---------------------------------------------------------- side files
\* compress() of a GET of a file, step by step: respond() has chosen gzip,
\* finalize() registers the entry when the url has none
Begin(k, url) ==
    /\ streams[k].phase = "none"
    /\ k > 1 => streams[k - 1].phase # "none"
    /\ \E q \in {Request("GET", url, NoHeaders, FALSE, Env(TRUE, FALSE, "none"))} :
       \E f \in {finalize(served.gen, Emitting(q),
                           [status |-> SUCCESS, h |-> StatHeaders(url), body |-> <<"u", "p">>,
                            file |-> TRUE, options |-> <<>>], clock)} :
          /\ etags' = f.s.etags
          /\ streams' = [streams EXCEPT ![k] =
                            [Resting EXCEPT !.phase = "exists", !.url = url,
                                            !.fp = SideFile(unquote(f.h["etag"]), "gz")]]
    /\ UNCHANGED <<handles, disk, clock, served, watching, timers, tmp, sweeping, runner0, routing>>

\* the callback of fs.exists( fp ): lstat of the side file, or next( false ):
\* the source is piped through zlib to the client and to the side file
Exists(k) ==
    /\ streams[k].phase = "exists"
    /\ IF streams[k].fp \in tmp
       THEN /\ streams' = [streams EXCEPT ![k].phase = "stat"]
            /\ tmp' = tmp
       ELSE /\ streams' = [streams EXCEPT ![k].phase = "writing", ![k].answer = "zlib-file",
                                          ![k].status = SUCCESS]
            /\ tmp' = tmp \cup {streams[k].fp}
    /\ UNCHANGED <<handles, etags, disk, clock, served, watching, timers, sweeping, runner0, routing>>

\* the callback of fs.lstat( fp ): the head is written and the side file
\* opened; on an error 5.x rejects with 500 and 3.x calls error( req, res, e )
Stat(k) ==
    /\ streams[k].phase = "stat"
    /\ streams' = IF streams[k].fp \in tmp
                  THEN [streams EXCEPT ![k].phase = "read", ![k].status = SUCCESS]
                  ELSE [streams EXCEPT ![k].phase = "done", ![k].answer = "error",
                                       ![k].status = IF served.gen = "pipeline"
                                                     THEN SERVER_ERROR ELSE NOT_FOUND]
    /\ UNCHANGED <<handles, etags, disk, clock, served, watching, timers, tmp, sweeping, runner0, routing>>

\* the deletions unregister() starts for the entries it removed
sweeps(url, r) ==
    {[file |-> SideFile(r.swept[i], type), url |-> url, phase |-> "exists"] :
        i \in DOMAIN r.swept, type \in Exts}

\* fs.createReadStream( fp ) opens the side file: it is streamed, or the
\* error listener unregisters the url and fails the request
Read(k) ==
    /\ streams[k].phase = "read"
    /\ IF streams[k].fp \in tmp
       THEN /\ streams' = [streams EXCEPT ![k].phase = "done", ![k].answer = "side-file"]
            /\ UNCHANGED <<etags, sweeping>>
       ELSE \E r \in {unregister(Emitting(Idle), streams[k].url)} :
               /\ streams' = [streams EXCEPT ![k].phase = "done", ![k].answer = "error"]
               /\ etags' = r.etags
               /\ sweeping' = sweeping \cup sweeps(streams[k].url, r)
    /\ UNCHANGED <<handles, disk, clock, served, watching, timers, tmp, runner0, routing>>

\* the write stream of the side file ends
Flushed(k) ==
    /\ streams[k].phase = "writing"
    /\ streams' = [streams EXCEPT ![k].phase = "done"]
    /\ UNCHANGED <<handles, etags, disk, clock, served, watching, timers, tmp, sweeping, runner0, routing>>

\* unregister( url ), from a timer, a watcher, a DELETE or an error listener
Invalidate(url) ==
    /\ url \in DOMAIN etags
    /\ \E r \in {unregister(Emitting(Idle), url)} :
          /\ etags' = r.etags
          /\ sweeping' = sweeping \cup sweeps(url, r)
    /\ UNCHANGED <<handles, disk, clock, served, watching, timers, tmp, streams, runner0, routing>>

\* unregister(): the callback of fs.exists( lfile )
SweepExists(d) ==
    /\ d.phase = "exists"
    /\ sweeping' = (sweeping \ {d})
                   \cup IF d.file \in tmp THEN {[d EXCEPT !.phase = "unlink"]} ELSE {}
    /\ UNCHANGED <<handles, etags, disk, clock, served, watching, timers, tmp, streams, runner0, routing>>

\* unregister(): fs.unlink( lfile )
SweepUnlink(d) ==
    /\ d.phase = "unlink"
    /\ tmp' = tmp \ {d.file}
    /\ sweeping' = sweeping \ {d}
    /\ UNCHANGED <<handles, etags, disk, clock, served, watching, timers, streams, runner0, routing>>

\* something outside the server deletes a side file; lost marks the
\* compress() calls that had not read it yet
ExternalDelete(f) ==
    /\ f \in tmp
    /\ tmp' = tmp \ {f}
    /\ streams' = [k \in DOMAIN streams |->
                      IF streams[k].fp = f /\ streams[k].phase \in {"exists", "stat", "read"}
                      THEN [streams[k] EXCEPT !.lost = TRUE] ELSE streams[k]]
    /\ UNCHANGED <<handles, etags, disk, clock, served, watching, timers, sweeping, runner0, routing>>

NextSide ==
    \/ \E k \in 1..MaxRequests : Begin(k, "/x")
    \/ \E k \in 1..MaxRequests : Exists(k)
    \/ \E k \in 1..MaxRequests : Stat(k)
    \/ \E k \in 1..MaxRequests : Read(k)
    \/ \E k \in 1..MaxRequests : Flushed(k)
    \/ Invalidate("/x")
    \/ \E d \in sweeping : SweepExists(d)
    \/ \E d \in sweeping : SweepUnlink(d)
    \/ \E f \in tmp : ExternalDelete(f)

SpecSide == InitCache /\ [][NextSide]_vars

\* the choice of a coding for a response
MaxCodings == 2
Codings == {"gzip", "deflate", "br"}
AcceptEncodings == UNION {[1..n -> Codings] : n \in 0..MaxCodings}
Agents == {"", "Mozilla/5.0", "MSIE 9.0"}
Mimetypes == {"text/plain", "application/json", "image/png"}

\* respond() decides whether to compress
Select(status, body, enabled, ua, encodings, mimetype) ==
    /\ Ready
    /\ Serve("select", Idle,
             NoArgs @@ [code |-> status, data |-> body, compress |-> enabled, ua |-> ua,
                        encodings |-> encodings, mimetype |-> mimetype],
             Emitting(Idle) @@
             [coding |-> content_encoding(served.gen, status, body, enabled, ua, encodings,
                                          mimetype)])

NextCompression ==
    \/ \E status \in {SUCCESS, PARTIAL_CONTENT, NOT_FOUND}, body \in {NO_CONTENT, <<"u", "p">>},
          enabled \in BOOLEAN, ua \in Agents, encodings \in AcceptEncodings,
          mimetype \in Mimetypes :
           Select(status, body, enabled, ua, encodings, mimetype)
    \/ Await

SpecCompression == InitCache /\ [][NextCompression]_vars

\* the answers of an upstream and the time after them
Lifetimes ==
    {NoHeaders, Header("expires", 1), Header("expires", 2), Header("cache-control", "no-cache"),
     Header("cache-control", "private"), Header("cache-control", "public")}
    \cup {Header("cache-control", v) : v \in {"max-age=0", "max-age=1", "max-age=2"}}
    \cup {Header("cache-control", "max-age=1") @@ Header("expires", 2)}

InitProxy ==
    /\ config = [catchAll |-> TRUE, maxBytes |-> 0, default |-> ALL]
    /\ req = InitReq("route", "GET", "a")
    /\ run = InitRunner(<<>>)
    /\ allow = [get |-> TRUE, method |-> TRUE]
    /\ InitRest
    /\ InitServing({"pipeline"})

NextProxy ==
    \/ \E method \in {"GET", "POST"}, status \in {SUCCESS, NOT_MODIFIED, 201}, hdrs \in Lifetimes :
           Proxy(method, "/y", status, hdrs, <<"u", "p">>, NoHeaders)
    \/ Timeout
    \/ Elapse
    \/ Await

SpecProxy == InitProxy /\ [][NextProxy]_vars

\* one url proxied again and again, every answer with the same max-age,
\* while the timers of its earlier answers are pending
Reload(hdrs) ==
    /\ Waiting
    /\ served.n < MaxFetch
    /\ Proxied("GET", "/y", SUCCESS, hdrs, <<"u", "p">>, NoHeaders)

NextStale ==
    \/ Reload(Header("cache-control", "max-age=2"))
    \/ Timeout
    \/ Elapse
    \/ Await

SpecStale == InitProxy /\ [][NextStale]_vars

\* the body a client uploads
Upload == <<"n", "e", "w">>

\* the paths of conditional requests and writes: a file, a path that does not
\* exist, a directory and its index file
Targets == {<<"a", "f.txt">>, <<"f.txt">>, <<"a">>, <<"a", "index.htm">>}

\* request headers that carry a validator: the etag of the file as it was
\* created and as an upload leaves it
Preconditions(href) ==
    {NoHeaders} \cup {Header(k, quote(etag(href, n, 0))) :
                        k \in {"etag", "if-match", "if-none-match"}, n \in {2, 3}}

\* a request reaches the file handler, under a configured index list and an
\* order of completion of its stats; the arguments keep the disk it found
FileRequest(method, segs, slash, reqh, list, body, env, names) ==
    /\ Ready
    /\ segs = <<>> => slash
    /\ \E order \in IF method \in regex_get /\ slash THEN Completions(Len(names))
                     ELSE {[k \in 1..Len(names) |-> k]} :
       \E q \in {[Request(method, Href(segs, slash), reqh, FALSE, env) EXCEPT !.allow = list]
                 @@ [segs |-> segs, slash |-> slash, index |-> names, order |-> order]} :
       \E r \in {request_file(served.gen, Emitting(q), body, clock, MaxNest)} :
           Serve("request", q, [NoArgs EXCEPT !.body = body] @@ [found |-> disk], r)

\* fs.watch reports on a watched path; the arguments keep the path, its url
\* and the listeners there were
FileEvent(path, rename) ==
    /\ Waiting
    /\ \E r \in {watch_event(served.gen, Emitting(Idle), path, rename, clock)} :
          /\ etags' = r.etags
          /\ disk' = r.disk
          /\ watching' = r.watching
          /\ served' = Served(served.gen, "event", served.n, Idle,
                              NoArgs @@ [path |-> path, rename |-> rename, watched |-> watching],
                              etags, clock, r)
    /\ UNCHANGED <<clock, timers, rest>>

\* the file side: every path against the document root as it was deployed, and
\* conditional reads, writes and deletes of the targets
NextFile ==
    \/ /\ disk = Docroot /\ etags = NoHeaders
       /\ \E method \in {"GET", "PUT", "DELETE"}, segs \in Pathnames(MaxSegs) :
              FileRequest(method, segs, segs = <<>>, NoHeaders, ALLOW_ALL, Upload, Calm, config_index)
    \/ \E method \in {"GET", "HEAD", "PUT", "POST", "DELETE"}, segs \in Targets,
          slash \in BOOLEAN, list \in {ALLOW_READ, ALLOW_ALL} :
       \E reqh \in Preconditions(Href(segs, slash)) :
           FileRequest(method, segs, slash, reqh, list, Upload, Calm, config_index)
    \/ \E segs \in {<<>>, <<"a">>}, names \in Indexes :
           FileRequest("GET", segs, TRUE, NoHeaders, ALLOW_READ, Upload, Calm, names)
    \/ \E segs \in Targets, list \in {ALLOW_READ, ALLOW_ALL} :
           FileRequest("DELETE", segs, FALSE, NoHeaders, list, Upload,
                       Env(FALSE, FALSE, "unlink"), config_index)
    \/ \E method \in {"GET", "PUT", "DELETE"}, segs \in Targets :
           FileRequest(method, segs, FALSE, Header("expect", "100-continue"), ALLOW_ALL, Upload,
                       Calm, config_index)
    \/ \E path \in DOMAIN watching, rename \in BOOLEAN : FileEvent(path, rename)
    \/ Await

SpecFile == InitCache /\ [][NextFile]_vars

\* a GET on its way through the middleware: the etag hook registered on /.*
\* answers from the ETag cache or calls next(), and the file handler follows
fetch(gen, variant, s, now, depth) ==
    Bind(etag_gate(variant, s, now, depth), LAMBDA g :
        IF g.sent # <<>> THEN g ELSE request_file(gen, g, NO_CONTENT, now, depth))

Fetch(variant, segs, reqh) ==
    /\ Waiting
    /\ served.n < MaxFetch
    /\ variant \in GateVariants(served.gen)
    /\ \E q \in {[Request("GET", Href(segs, FALSE), reqh, FALSE, Calm) EXCEPT !.allow = ALLOW_ALL]
                 @@ [segs |-> segs, slash |-> FALSE, index |-> config_index,
                     order |-> [k \in 1..Len(config_index) |-> k]]} :
       \E r \in {fetch(served.gen, variant, Emitting(q), clock, MaxNest)} :
           Serve("fetch", q, [NoArgs EXCEPT !.variant = variant] @@ [found |-> disk], r)

NextCoherence ==
    \/ \E variant \in {"connect", "factory", "route"},
          reqh \in {NoHeaders} \cup {Header("if-none-match", quote(etag(Href(<<"a", "f.txt">>, FALSE), n, 0))) :
                                         n \in {2, 3}} :
           Fetch(variant, <<"a", "f.txt">>, reqh)
    \/ FileRequest("PUT", <<"a", "f.txt">>, FALSE, NoHeaders, ALLOW_ALL, Upload, Calm, config_index)
    \/ \E path \in DOMAIN watching : FileEvent(path, FALSE)
    \/ Await

SpecCoherence == InitCache /\ [][NextCoherence]_vars

\* stop() on a started instance; call.result keeps the blacklist it had, and
\* call.n past MaxCalls marks the one restart of a behaviour. The listener
\* is closed: no request is served until start()
Stop ==
    /\ call.n <= MaxCalls
    /\ call.op # "stop"
    /\ \E r \in {stop_instance(Rt)} : SetRt(r)
    /\ etags' = NoHeaders
    /\ watching' = NoWatch
    /\ call' = [Call("stop", MaxCalls + 1) EXCEPT !.result = noaction]
    /\ UNCHANGED <<runner0, disk, clock, served, timers, side>>

\* start( cfg ) after stop()
Start(hosts, defaults) ==
    /\ call.op = "stop"
    /\ \E r \in {start_instance(Rt, hosts, defaults)} : SetRt(r)
    /\ call' = [Call("restart", call.n) EXCEPT !.result = call.result]
    /\ UNCHANGED runner

NextRestart ==
    \/ \E path \in {"/.*", "/a"}, method \in {ALL, "get"} : Use(path, ALL, method)
    \/ \E fn \in {"f"} : Blacklist(fn)
    \/ Host("b")
    \/ \E uri \in {"/A", "/b"}, hst \in {ALL, "b"} : Allows(uri, hst, FALSE)
    \/ /\ call.op # "stop"
       /\ FileRequest("GET", <<"a", "f.txt">>, FALSE, NoHeaders, ALLOW_READ, Upload, Calm,
                      config_index)
    \/ Stop
    \/ \E hosts \in {<<>>, <<"b">>}, defaults \in {"undefined", "empty"} : Start(hosts, defaults)

SpecRestart == InitIdle /\ [][NextRestart]_vars

\* ---------------------------------------------------------------- watchers
WatchPaths == {<<"a", "f.txt">>, <<"a", "index.htm">>}
MaxWatchers == 3

\* the watcher fs.watch( path, listener ) returns; the listener and cleanup()
\* close over url, path and the watcher itself
Watcher(url, path) == [path |-> path, url |-> url, open |-> TRUE, pending |-> FALSE]

quiet == <<disk, clock, served, timers, tmp, sweeping, streams, runner0, routing>>

\* respond() of a cacheable GET of a file: the entry is registered unless it
\* is cached, and watch( req.parsed.href, req.path ) is called
Track(path) ==
    /\ call.op # "stop"
    /\ path \in DOMAIN disk
    /\ Len(handles) < MaxWatchers
    /\ \E url \in {Href(path, FALSE)} :
       \E tag \in {etag(url, Len(disk[path].data), disk[path].mtime)} :
       \E r \in {watch(IF url \in DOMAIN etags THEN Emitting(Idle)
                       ELSE register(served.gen, Emitting(Idle), url,
                                     [etag |-> tag, headers |-> Header("etag", quote(tag)),
                                      timestamp |-> clock], TRUE), url, path)} :
          /\ etags' = r.etags
          /\ watching' = r.watching
          /\ handles' = IF path \in DOMAIN watching THEN handles
                        ELSE Append(handles, Watcher(url, path))
    /\ UNCHANGED quiet

\* cleanup() of the closure of watcher h: watcher.close(), unregister( url ),
\* delete this.watching[ path ]
Close(h, pending) ==
    \E r \in {cleanup(Emitting(Idle), handles[h].url, handles[h].path)} :
       /\ etags' = r.etags
       /\ watching' = r.watching
       /\ handles' = [handles EXCEPT ![h].open = FALSE, ![h].pending = pending]

\* the listener of an open watcher is called with a rename event
Rename(h) ==
    /\ handles[h].open
    /\ Close(h, handles[h].pending)
    /\ UNCHANGED quiet

\* the listener is called with a change event and starts fs.lstat( path )
Change(h) ==
    /\ handles[h].open
    /\ ~handles[h].pending
    /\ handles' = [handles EXCEPT ![h].pending = TRUE]
    /\ UNCHANGED <<etags, watching, quiet>>

\* the callback of that fs.lstat
Restat(h) ==
    /\ handles[h].pending
    /\ IF handles[h].path \notin DOMAIN disk \/ handles[h].url \notin DOMAIN etags
       THEN Close(h, FALSE)
       ELSE \E r \in {watch_change(served.gen, Emitting(Idle), handles[h].url, FALSE,
                                    Len(disk[handles[h].path].data),
                                    disk[handles[h].path].mtime, clock)} :
               /\ etags' = r.etags
               /\ watching' = watching
               /\ handles' = [handles EXCEPT ![h].pending = FALSE]
    /\ UNCHANGED quiet

\* a watched file is removed from the document root
Remove(path) ==
    /\ path \in DOMAIN disk
    /\ disk' = [p \in DOMAIN disk \ {path} |-> disk[p]]
    /\ UNCHANGED <<etags, watching, handles, clock, served, timers, tmp, sweeping, streams,
                   runner0, routing>>

NextWatch ==
    \/ \E path \in WatchPaths : Track(path)
    \/ \E h \in DOMAIN handles : Rename(h)
    \/ \E h \in DOMAIN handles : Change(h)
    \/ \E h \in DOMAIN handles : Restat(h)
    \/ \E path \in WatchPaths : Remove(path)
    \/ Stop
    \/ Start(<<>>, "empty")

SpecWatch == InitIdle /\ [][NextWatch]_vars

\* the rejection handler of pipeline() is a promise reaction: once a deferred
\* is rejected it runs; handlers owe the runner nothing
FairBody == SpecBody /\ WF_vars(PipelineRejected)

\* ================================================================ claims
Min(S) == CHOOSE x \in S : \A y \in S : x <= y

\* a step that is a call next( err ) with an error
NextErrStep == ev'.op = "next" /\ ev'.err # "none"

\* the response has a status line and was ended
Answered == res._header # 0 /\ res.ends > 0
AnsweredNext == res'._header # 0 /\ res'.ends > 0

TerminalErrorStep ==
    /\ run'.started = run.started
    /\ IF req.entry = "pipeline"
       THEN promise.route = "pending" => promise'.route = "rejected" /\ ev'.out = "reject"
       ELSE ev'.out = "error" /\ AnsweredNext

C2_TerminalNoError ==
    [][/\ (ev'.op = "next" /\ ev'.err = "none" /\ run.it >= Len(run.chain) /\ res._header = 0) =>
            LET status == IF allow.get THEN NOT_ALLOWED ELSE NOT_FOUND
            IN  IF req.method \in regex_get THEN ev'.out = "request" /\ obs'.request
                ELSE IF req.entry = "pipeline"
                     THEN promise'.route = "rejected" /\ promise'.reason = status
                     ELSE ev'.out = "error" /\ res'._header = status
       /\ (ev'.op = "rejected" /\ promise.route = "rejected" /\ res._header = 0) =>
            res'._header = promise.reason]_vars

\* ---------------------------------------------------------------- C3
\* an error handed to next() that no handler took
Unconsumed == ev.op = "next" /\ ev.err # "none" /\ ev.out # "invoke"
Rejected == promise.connect = "rejected" \/ promise.route = "rejected"
BodyWritten == IF req.method \in regex_head THEN res.body = NO_CONTENT ELSE res.body # NO_CONTENT

C4_BodyLimit ==
    /\ (req.method \in regex_body /\ over(req.payload)) =>
          /\ req.invalid
          /\ ~obs.request
          /\ \A i \in 1..Len(run.started) : run.chain[run.started[i].h].kind = "connect"
          /\ (req.entry = "pipeline" => promise.handled) =>
                res._header = REQ_TOO_LARGE /\ res.heads = 1 /\ res.ends = 1
    /\ config.maxBytes = 0 => ~req.invalid

\* ---------------------------------------------------------------- C5
\* the runner has begun: a handler was started, the continuation ran, or
\* the file handler was reached
RunnerBegan == run.started # <<>> \/ ev.op = "next" \/ obs.request

\* C5: under route() and pipeline(), for PUT, POST, PATCH the chain and the
\* terminal handler never start before the body-end event, and then req.body
\* holds the complete body; for every other method the chain starts without
\* waiting for a body.
C5_BodyBeforeChain ==
    req.entry \in {"route", "pipeline"} =>
       /\ req.method \in regex_body =>
             (RunnerBegan => req.ended /\ req.body = req.payload)
       /\ req.method \notin regex_body =>
             /\ ~req.listening /\ req.payload = <<>>
             /\ (req.entry = "route" /\ req.stage # "accepted") => RunnerBegan
             /\ (req.entry = "pipeline" /\ promise.route # "none") => RunnerBegan

\* a handler runs behind a body that came in two chunks
C5_Witness ==
    /\ req.entry \in {"route", "pipeline"} /\ req.method \in regex_body
    /\ run.started # <<>> /\ Len(req.body) = 2

\* ---------------------------------------------------------------- C6
\* C6: the handlers of one request run strictly one after the other: each
\* is started by the continuation of the one started before it (the first by
\* the runner), none is started twice -- also when a handler calls its
\* continuation more than once.
C6_Sequential ==
    \A i \in 1..Len(run.started) :
        /\ run.started[i].by = (IF i = 1 THEN 0 ELSE run.started[i - 1].h)
        /\ \A j \in 1..Len(run.started) : run.started[j].h = run.started[i].h => j = i

\* ---------------------------------------------------------------- C7
\* the handlers registered under ( hst, method ) whose pattern matches the
\* whole uri case-insensitively: patterns in the order they first appeared,
\* each pattern's handlers in registration order
ListOf(hst, method, uri) ==
    LET mine == SelectSeq(registered, LAMBDA r : r.host = hst /\ r.method = method)
        own == IF hst = ALL /\ method = ALL
               THEN <<[path |-> "/.*", fn |-> "cors"], [path |-> "/.*", fn |-> "etag"]>> \o mine
               ELSE mine
        first == SelectSeq([i \in 1..Len(own) |-> [i |-> i, path |-> own[i].path]],
                           LAMBDA e : \A j \in 1..(e.i - 1) : own[j].path # e.path)
        fits == SelectSeq(first, LAMBDA e : Match(Chars(e.path), Chars(uri), TRUE))
        of(path) == SelectSeq(own, LAMBDA r : r.path = path)
    IN  Concat([k \in 1..Len(fits) |->
                   [i \in 1..Len(of(fits[k].path)) |-> of(fits[k].path)[i].fn]])

\* C7: routes( uri, host, method ) returns exactly the concatenation, in
\* this order, of the handler lists registered under (all, all),
\* (all, method), (host, all), (host, method), taking only the patterns that
\* match the whole uri case-insensitively and keeping registration order
\* inside each pattern's list.
C7_RoutesConcatenation ==
    call.op = "routes" =>
        call.result = ListOf(ALL, ALL, call.uri) \o ListOf(ALL, call.method, call.uri)
                        \o ListOf(call.host, ALL, call.uri)
                        \o ListOf(call.host, call.method, call.uri)

\* ---------------------------------------------------------------- C8
\* C8: a routes() lookup answered without override equals what a cache-cold
\* recomputation from the current middleware table returns, and the Allow
\* string allows() returns without override equals a recomputed one.
C8_CacheCoherence ==
    /\ (call.op = "routes" /\ ~call.override) =>
           call.result = Collect(middleware, call.uri, call.host, call.method)
    /\ (call.op = "allows" /\ ~call.override) =>
           call.result = allows(Rt, call.uri, call.host, TRUE).result

\* ---------------------------------------------------------------- C9
\* C9: req.vhost is the label of the first pattern, in insertion order of
\* host(), whose compiled regex matches the hostname, even when later
\* patterns match too; config.default when none matches.
C9_FirstVhostWins ==
    call.op = "decorate" =>
        LET hits == {i \in 1..Len(vhosts) :
                        Match(ReplaceStar(Chars(vhosts[i])), Chars(call.hostname), FALSE)}
        IN  call.host = IF hits = {} THEN config.default ELSE vhosts[Min(hits)]

\* --------------------------------------------------------------- C10
\* C10: after the decoration of a request allowed( "get", pathname, vhost )
\* holds and req.allow is non-empty and contains GET, HEAD and OPTIONS; when
\* the fallback was installed req.allow is the recomputed Allow string.
C10_AllowSelfRegistration ==
    call.op = "decorate" =>
        /\ allowed(Rt, "get", call.uri, call.host, FALSE).result
        /\ {"GET", "HEAD", "OPTIONS"} \subseteq {call.result[i] : i \in 1..Len(call.result)}
        /\ call.override => call.result = allows(Rt, call.uri, call.host, TRUE).result

\* --------------------------------------------------------------- C11
Tokens(str) == {str[i] : i \in 1..Len(str)}
OnlyBlacklisted(list) == \A i \in 1..Len(list) : hash(list[i]) \in noaction

\* C11: allowed( method, uri, host ) is true iff routes( uri, host, method )
\* holds a handler whose hash is not in noaction; a path matched only by
\* blacklisted handlers is not granted the method, and the method does not
\* appear in allows( uri, host ).
C11_Blacklist ==
    /\ \A verb \in {"get", "post"}, uri \in {"/A", "/b"}, hst \in {ALL, "b"} :
          allowed(Rt, verb, uri, hst, FALSE).result
             <=> ~OnlyBlacklisted(routes(Rt, uri, hst, verb, FALSE).result)
    /\ call.op = "allows" =>
          \A i \in 1..Len(VERBS) :
              OnlyBlacklisted(routes(Rt, call.uri, call.host, VERBS[i], FALSE).result)
                 => toUpperCase(VERBS[i]) \notin Tokens(call.result)

\* the request and the outcome of the last serving operation
Rq == served.q
Out == served.r
Was(op) == served.op = op

\* the operation wrote exactly one response, with this status
Answers(status) == Len(Out.sent) = 1 /\ Out.sent[1].status = status

\* the continuation was called once, without an error, and nothing was written
Continues == Out.nexts = <<"none">> /\ Out.sent = <<>>

\* the cache the gate found holds, for the request URL, the validator the client sent
Validated ==
    /\ Rq.href \in DOMAIN served.before
    /\ "if-none-match" \in DOMAIN Rq.hdrs
    /\ SelectSeq(Rq.hdrs["if-none-match"], LAMBDA c : c # "\"") = served.before[Rq.href].etag

Created == Rq.href \notin DOMAIN served.before /\ Rq.href \in DOMAIN etags

\* the combination under which respond() may write through
Cacheable ==
    /\ Rq.method = "GET"
    /\ served.x.status \in {SUCCESS, NOT_MODIFIED}
    /\ ~("cache-control" \in DOMAIN served.x.hdrs
         /\ served.x.hdrs["cache-control"] \in {"no-cache", "no-store", "private"})
    /\ Rq.href \notin DOMAIN served.before

\* the other entries are what they were
OthersKept ==
    /\ DOMAIN etags \ {Rq.href} = DOMAIN served.before \ {Rq.href}
    /\ \A u \in DOMAIN etags \ {Rq.href} : etags[u] = served.before[u]

CompressionFailed == Rq.zip /\ Rq.fail # "none"

AccessControl == {ACCESS_CONTROL[i] : i \in 1..Len(ACCESS_CONTROL)}
                    \cup {"access-control-allow-private-network"}
Volatile == {"content-encoding", "server", "status", "transfer-encoding", "x-powered-by",
             "x-response-time"} \cup AccessControl

\* C14: every entry of the ETag cache has an etag without quotes and headers
\* holding none of content-encoding, server, status, transfer-encoding,
\* x-powered-by, x-response-time or an access-control-* field, whichever path
\* stored it (write-through of respond(), proxied response, watcher).
C14_EntryInvariant ==
    \A u \in DOMAIN etags :
        /\ \A i \in 1..Len(etags[u].etag) : etags[u].etag[i] # "\""
        /\ DOMAIN etags[u].headers \cap Volatile = {}

\* C15: every response emitted with status 304 has an empty body and carries
\* neither content-length nor content-type, whoever called respond(): the
\* ETag gate, a handler, the proxy handler forwarding an upstream 304.
C15_NotModifiedBare ==
    \A i \in 1..Len(Out.sent) :
        Out.sent[i].status = NOT_MODIFIED =>
            /\ Out.sent[i].body = NO_CONTENT
            /\ DOMAIN Out.sent[i].headers \cap {"content-length", "content-type"} = {}

\* C16: every response emitted with status 206 carries content-range and a
\* content-length equal to end - start + 1, in every emission mode (buffered
\* body, file stream, compressed stream, compressed side file).
C16_PartialContent ==
    \A i \in 1..Len(Out.sent) :
        Out.sent[i].status = PARTIAL_CONTENT =>
            /\ {"content-range", "content-length"} \subseteq DOMAIN Out.sent[i].headers
            /\ Out.sent[i].headers["content-length"]
                  = Out.sent[i].headers["content-range"][2] - Out.sent[i].headers["content-range"][1] + 1

\* the Range header names a start that is not below its end, or no numbers
Unsatisfiable ==
    /\ "range" \in DOMAIN Rq.hdrs
    /\ Rq.hdrs["range"] \in {"bytes=1-1", "bytes=2-1", "bytes=a-b"}

\* C17: a response emitted for a request whose Range header has start >= end
\* or bounds that are not numbers removes the header from the request and
\* emits exactly one response, with status 416; the respond() nested in the
\* error handler does not handle the range again, so the emission ends.
C17_RangeNotSatisfiable ==
    Was("respond") /\ Unsatisfiable =>
        /\ "range" \notin DOMAIN Out.q.hdrs
        /\ Answers(NOT_SATISFIABLE)
        /\ ~Out.diverged

\* Range: bytes=2-1 on a stored file was answered 416
C17_Witness ==
    /\ Was("respond")
    /\ Rq.hdrs = Header("range", "bytes=2-1")
    /\ served.x.file
    /\ Answers(NOT_SATISFIABLE)
    /\ Out.sent[1].mode = "buffered"

\* the file the request path names once "." and ".." are resolved, and whether
\* it lies outside the vhost root
Resolved == normalize(<<>>, Rq.segs)
Outside == Resolved # <<>> /\ Resolved[1] = ".."

\* the file handler answered 404, or rejected with 404 for the error handler
Refused ==
    \/ Answers(NOT_FOUND) /\ Out.rejected = 0
    \/ Out.sent = <<>> /\ Out.rejected = NOT_FOUND

\* the calls of fs on the resolved file
Touched(ops) == {i \in DOMAIN Out.fsops : Out.fsops[i].at = Resolved /\ Out.fsops[i].op \in ops}

\* C18: a request whose path resolves to a location outside the vhost root is
\* answered 404 and the resolved file is never statted, read, written or
\* unlinked, for every method and for file and directory targets alike.
C18_PathSafety ==
    Was("request") /\ Outside =>
        /\ Refused
        /\ Touched({"lstat", "read", "write", "unlink"}) = {}

\* the disk the file handler found, and the directory of the resolved file
Found == served.x.found
Parent == SubSeq(Resolved, 1, Len(Resolved) - 1)

\* a PUT or POST the routes permit, to a path without "." and ".." inside the
\* root that names a file or a new entry of a directory that exists, without a
\* validator
Writes ==
    /\ Was("request")
    /\ Rq.method \in {"PUT", "POST"}
    /\ indexOf(Rq.allow, Rq.method)
    /\ ~Rq.slash /\ Rq.segs = Resolved /\ ~Outside /\ Resolved # <<>>
    /\ Parent \in DOMAIN Found /\ Found[Parent].kind = "dir"
    /\ Resolved \in DOMAIN Found => Found[Resolved].kind = "file"
    /\ DOMAIN Rq.hdrs \cap {"etag", "if-match"} = {}

\* the resolved file holds the uploaded body
Written == Resolved \in DOMAIN Out.disk /\ Out.disk[Resolved].data = served.x.body

\* C19: a permitted PUT or POST to a path that does not exist creates the file
\* with the buffered body and answers 201; to a file that exists it overwrites
\* the file and answers 204.
C19_WriteStatus ==
    Writes =>
        IF Resolved \notin DOMAIN Found
        THEN Answers(CREATED) /\ Written
        ELSE Answers(NO_CONTENT_STATUS) /\ Written

\* the ETag recomputed from the stat of the target
Recomputed == quote(etag(Rq.href, Len(Found[Resolved].data), Found[Resolved].mtime))

\* the validators the request carries
Sent == {Rq.hdrs[k] : k \in DOMAIN Rq.hdrs \cap {"etag", "if-match"}}

\* a permitted PUT to a file inside the root, its path without "." and ".."
Overwrites ==
    /\ Was("request")
    /\ Rq.method = "PUT"
    /\ indexOf(Rq.allow, "PUT")
    /\ ~Rq.slash /\ Rq.segs = Resolved /\ ~Outside
    /\ Resolved \in DOMAIN Found /\ Found[Resolved].kind = "file"

\* C20: a PUT or POST with an If-Match or ETag header that differs from the
\* ETag recomputed from the target's stat is answered 412 and leaves the file
\* and the ETag cache unchanged; without the header, or with an equal one, the
\* write proceeds.
C20_WritePrecondition ==
    Overwrites =>
        IF \E v \in Sent : v # Recomputed
        THEN Answers(FAILED) /\ Out.disk = Found /\ Out.etags = served.before
        ELSE Written /\ Answers(NO_CONTENT_STATUS)

\* a DELETE the routes permit, of a file or directory inside the root, its
\* path without "." and ".."
Deletes ==
    /\ Was("request")
    /\ Rq.method = "DELETE"
    /\ indexOf(Rq.allow, "DELETE")
    /\ ~Rq.slash /\ Rq.segs = Resolved /\ ~Outside
    /\ Resolved \in DOMAIN Found

\* the response was 500, written by the handler or left to the error handler
ServerError ==
    \/ Answers(SERVER_ERROR) /\ Out.rejected = 0
    \/ Out.sent = <<>> /\ Out.rejected = SERVER_ERROR

\* C21: a permitted DELETE of a file or directory URL unlinks the path and
\* removes the URL's ETag cache entry; the response is 204 when the unlink
\* succeeds and 500 when it fails, and in both cases the cache holds no entry
\* for the URL afterwards.
C21_DeleteStatus ==
    Deletes =>
        /\ Touched({"unlink"}) # {}
        /\ Rq.href \notin DOMAIN Out.etags
        /\ IF Resolved \notin DOMAIN Out.disk THEN Answers(NO_CONTENT_STATUS) ELSE ServerError

\* the watched path of the last event, the file it names, and whether cleanup ran
Watched == served.x.path
WatchedFile == normalize(<<>>, Watched)
CleanedUp == Was("event") /\ Watched \notin DOMAIN Out.watching

\* the urls of the targets that are served from a file: the file's own url,
\* with or without a trailing slash, and the url of its directory
ServedFrom(file) ==
    {Href(segs, slash) : <<segs, slash>> \in
        {t \in Targets \X BOOLEAN :
            \/ t[1] = file
            \/ t[2] /\ \E i \in DOMAIN config_index : Append(t[1], config_index[i]) = file}}

\* C22: after cleanup ran for a watched path, the ETag cache holds no entry for
\* any url that was served from that path, whichever url created the watcher.
C22_WatcherCleanup ==
    CleanedUp => ServedFrom(WatchedFile) \cap DOMAIN Out.etags = {}

\* the entry of a url as an operation found it, and the etag it holds afterwards
Stored(url) == served.before[url].etag
Replaced(url) ==
    /\ url \in DOMAIN served.before /\ url \in DOMAIN Out.etags
    /\ Out.etags[url].etag # Stored(url)

\* the deletion of the side files of this etag was started
Swept(tag) == \E i \in DOMAIN Out.swept : Out.swept[i] = tag

\* C23: when register( url, state, true ) stores a state whose etag differs from
\* the one the cache held for the url, the old entry is unregistered first: the
\* deletion of the side files named by the old etag is started.
C23_EvictOnMismatch ==
    \A url \in DOMAIN served.before : Replaced(url) => Swept(Stored(url))

\* a GET without validators of a directory url that ends in "/", the
\* directory inside the root
Lists ==
    /\ Was("request")
    /\ Rq.method = "GET" /\ Rq.slash /\ Rq.hdrs = NoHeaders
    /\ Rq.segs = Resolved /\ ~Outside
    /\ Resolved \in DOMAIN Found /\ Found[Resolved].kind = "dir"

\* the configured index files that exist in the directory, by position
Present == {k \in DOMAIN Rq.index : Append(Resolved, Rq.index[k]) \in DOMAIN Found}

\* the files the response was read from
ReadFrom == {Out.fsops[i].at : i \in {j \in DOMAIN Out.fsops : Out.fsops[j].op = "read"}}

\* C24: a GET of a directory url ending in "/" serves the first configured
\* index file whose stat succeeds, whatever the order in which the stats
\* complete, and answers 404 when none succeeds or the list is empty.
C24_IndexResolution ==
    Lists =>
        IF Present = {} THEN Refused
        ELSE Answers(SUCCESS) /\ ReadFrom = {Append(Resolved, Rq.index[Min(Present)])}

\* the response was 417, written by the handler or left to the error handler
ExpectationFailed ==
    \/ Answers(EXPECTATION_FAILED) /\ Out.rejected = 0
    \/ Out.sent = <<>> /\ Out.rejected = EXPECTATION_FAILED

\* C25: a request with an Expect header that reaches the file handler is
\* answered 417 and nothing else: no stat, read, write or unlink is made for
\* it and no other response is written.
C25_ExpectationFailed ==
    Was("request") /\ "expect" \in DOMAIN Rq.hdrs =>
        ExpectationFailed /\ Out.fsops = <<>> /\ Out.disk = Found

Refusal == served.x.message \in regex_refused

\* C26: when the upstream request of a proxied route fails, the client is
\* answered 503 for a connection-refused error and 500 for any other IO
\* error, whatever the request method.
C26_ProxyErrors ==
    Was("upstream") =>
        Answers(IF Refusal THEN SERVICE_UNAVAILABLE ELSE SERVER_ERROR)

\* the proxied answer may be cached: GET, 200 or 304, Cache-Control not forbidding
Expiring ==
    /\ Was("proxy") /\ Rq.method = "GET" /\ served.x.status \in {SUCCESS, NOT_MODIFIED}
    /\ ~nocache(served.x.hdrs) /\ ~private(served.x.hdrs)

\* max-age of Cache-Control when it carries a number, else Expires - now
MaxAged == "cache-control" \in DOMAIN served.x.hdrs /\ regex_number(served.x.hdrs["cache-control"]) # -1
Dated == ~MaxAged /\ "expires" \in DOMAIN served.x.hdrs
Delay ==
    IF MaxAged THEN regex_number(served.x.hdrs["cache-control"])
    ELSE served.x.hdrs["expires"] - served.now

\* the entry the answer registered is still the one in the cache
Kept ==
    /\ Rq.href \notin DOMAIN served.before /\ Rq.href \in DOMAIN Out.etags
    /\ Rq.href \in DOMAIN etags /\ etags[Rq.href] = Out.etags[Rq.href]

\* C27: a proxied GET answered 200 or 304 whose Cache-Control forbids nothing
\* schedules an unregister of its url after max-age seconds when
\* Cache-Control carries a number, else after Expires - now when Expires is
\* present; once that delay has passed the entry the answer registered is no
\* longer cached; any other method, status or a forbidding Cache-Control
\* schedules nothing.
C27_ProxyExpiry ==
    /\ Expiring /\ (MaxAged \/ Dated) =>
           /\ [url |-> Rq.href, due |-> served.now + Delay] \in Out.timers
           /\ clock > served.now + Delay => ~Kept
    /\ Was("proxy") /\ ~Expiring => Out.timers = served.x.timers

Offers(name) == \E k \in DOMAIN served.x.encodings : served.x.encodings[k] = name

\* the six conditions of the selection
Compressible ==
    /\ served.x.code \in {SUCCESS, PARTIAL_CONTENT}
    /\ served.x.data # NO_CONTENT
    /\ served.x.compress
    /\ served.x.mimetype \in regex_comp
    /\ served.x.ua \notin regex_ie
    /\ Offers("gzip") \/ Offers("deflate")

\* C28: respond() compresses iff the status is 200 or 206, the body is not
\* empty, config.compress is set, the content type matches
\* javascript|json|text|xml, the user agent is not MSIE (none counts as not
\* MSIE) and Accept-Encoding offers gzip or deflate; the coding is gzip
\* whenever gzip is offered, at any position, and deflate otherwise.
C28_CompressionSelection ==
    Was("select") =>
        /\ Out.coding # "identity" <=> Compressible
        /\ Compressible => Out.coding = IF Offers("gzip") THEN "gzip" ELSE "deflate"

\* a compress() call that ended after its side file was deleted from outside
Lost(k) == streams[k].phase = "done" /\ streams[k].lost

\* C29: when a side file is deleted from outside, before the existence
\* check, between the check and the stat or between the stat and the read,
\* the request is still answered with the compressed representation,
\* produced again from the source, and not with an error.
C29_SideFileFallback ==
    \A k \in DOMAIN streams : Lost(k) => streams[k].answer = "zlib-file"

\* the deletion unregister() started is about to unlink a side file
Owned(d) == d.url \in DOMAIN etags /\ etags[d.url].etag = d.file.etag
InUse(d) ==
    \E k \in DOMAIN streams :
        streams[k].fp = d.file /\ streams[k].phase \in {"stat", "read", "writing"}

\* C30: whatever the interleaving of requests and invalidations of one url,
\* the deletion unregister() starts for a removed entry never unlinks a side
\* file of the entry now registered for the url, nor one a compress() under
\* way is writing or streaming.
C30_SerializedReplacement ==
    [][\A d \in sweeping :
           d.phase = "unlink" /\ d \notin sweeping' /\ d.file \in tmp /\ d.file \notin tmp'
               => ~Owned(d) /\ ~InUse(d)]_vars

Stopped == call.op = "stop"
Restarted == call.op = "restart"

\* the instance as built anew with the same registrations and blacklist
Fresh == [Rt EXCEPT !.noaction = call.result]

\* C31: after stop() the ETag cache, the permissions cache, the route cache,
\* the vhost table and the watcher registry are empty, and after a following
\* start( cfg ) every url and host is granted the methods a freshly built
\* instance with the same registrations grants: a handler blacklisted
\* before stop() still grants none.
C31_StopStart ==
    /\ Stopped => /\ etags = NoHeaders /\ permissions = <<>> /\ routeCache = <<>>
                  /\ vhosts = <<>> /\ watching = NoWatch
    /\ Restarted =>
           \A uri \in {"/A", "/b"}, hst \in {ALL, "b"} :
               /\ ~allows(Rt, uri, hst, FALSE).thrown
               /\ allows(Rt, uri, hst, FALSE).result = allows(Fresh, uri, hst, FALSE).result


\* a response outside the verbatim redirect class that must carry no validator
Verbatim(status) == status # NOT_MODIFIED /\ status >= MULTIPLE_CHOICE /\ status < BAD_REQUEST

Limited(e) == "x-ratelimit-limit" \in DOMAIN e.headers

Unvalidated(e) ==
    /\ ~Verbatim(e.status)
    /\ Rq.method \notin {"GET", "HEAD", "OPTIONS"} \/ e.status >= BAD_REQUEST \/ Limited(e)

Disciplined(e) ==
    /\ "etag" \notin DOMAIN e.headers
    /\ "last-modified" \notin DOMAIN e.headers
    /\ IF Limited(e)
       THEN "cache-control" \in DOMAIN e.headers /\ e.headers["cache-control"] = "no-cache"
       ELSE "cache-control" \notin DOMAIN e.headers

\* C32: every response outside the verbatim redirect class whose request
\* method is not GET, HEAD or OPTIONS, or whose status is at least 400, or
\* whose headers contain x-ratelimit-limit, is emitted without etag and
\* last-modified, and without cache-control unless x-ratelimit-limit is
\* present, in which case cache-control is exactly no-cache
C32_ValidatorDiscipline ==
    Was("respond") =>
        \A i \in 1..Len(Out.sent) : Unvalidated(Out.sent[i]) => Disciplined(Out.sent[i])


\* the file a GET is about as it stood when the request arrived, and the
\* validator of that state
OnDisk == served.x.found[Rq.segs]

Acknowledged == Was("fetch") /\ Rq.segs \in DOMAIN served.x.found /\ OnDisk.data = Upload

Current == quote(etag(Rq.href, Len(OnDisk.data), OnDisk.mtime))

Revalidates == "if-none-match" \in DOMAIN Rq.hdrs /\ Rq.hdrs["if-none-match"] = Current

\* C33: once a PUT of bytes B to /p has been acknowledged, every later GET /p
\* is answered with the file that holds B and with the ETag of the new file
\* state; a GET that carries the validator of the state before the PUT is
\* not answered 304 from the ETag cache, whether or not the change event of
\* the file watcher has been delivered
C33_WriteThenRead ==
    Acknowledged =>
        /\ Len(Out.sent) = 1
        /\ "etag" \in DOMAIN Out.sent[1].headers
        /\ Out.sent[1].headers["etag"] = Current
        /\ IF Revalidates THEN Out.sent[1].status = NOT_MODIFIED
           ELSE Out.sent[1].status = SUCCESS /\ Out.sent[1].mode = "file"


\* C34: on every path of a request the status line of the response is
\* written at most once and the body of the response is ended at most once
C34_SingleResponse == res.heads <= 1 /\ res.ends <= 1


\* the open watchers of a path
Live(path) == {h \in DOMAIN handles : handles[h].open /\ handles[h].path = path}

\* C35: in every reachable state and for every path, this.watching holds the
\* path if and only if exactly one open watcher exists for it: never two open
\* watchers for one path, an open watcher without its flag, or a flag without
\* an open watcher
C35_WatcherRegistry ==
    \A path \in WatchPaths : path \in DOMAIN watching <=> Cardinality(Live(path)) = 1


\* a compress() call that is still writing the side file fp
Writing(fp) == \E j \in DOMAIN streams : streams[j].phase = "writing" /\ streams[j].fp = fp

\* C36: a compressed side file is streamed to a client only after the writer
\* that created it has finished: no request finds, by the existence check,
\* a side file that another request for the same etag is still writing and
\* streams it with its response
C36_CompleteSideFiles ==
    [][\A k \in DOMAIN streams :
           streams[k].phase = "read" /\ streams'[k].answer = "side-file"
               => ~Writing(streams[k].fp)]_vars


\* the change event of the watcher of a path: the url its listener closes
\* over, and the GET of that url as the file handler answers it for the file
\* as it is now, with nothing cached
Updated == Was("event") /\ ~served.x.rename /\ served.x.watched[served.x.path] \in DOMAIN etags

Url == served.x.watched[served.x.path]

\* the request the url came with: its segments and its trailing slash
Asked ==
    CHOOSE a \in [segs : Pathnames(MaxSegs) \cup Targets, slash : BOOLEAN] :
        Href(a.segs, a.slash) = Url

\* the url names a file, or a directory whose index file is watched
Plain ==
    LET l == lstat(served.gen, disk, Asked.segs)
    IN  l.ok /\ disk[l.at].kind = "file"

Again ==
    LET path == served.x.path
        q == [Request("GET", Url, NoHeaders, FALSE, Calm) EXCEPT !.allow = ALLOW_READ]
             @@ [segs |-> Asked.segs, slash |-> Asked.slash,
                 index |-> <<path[Len(path)]>>, order |-> <<1>>]
    IN  request_file(served.gen, Emission(NoHeaders, disk, q), Upload, clock, MaxNest)

\* C37: after the change event of the watcher has updated the cache entry
\* of a url, the stored etag is, quotes aside, the ETag the file handler
\* emits for the same url and the same size and mtime of the file, for the
\* url of a file and for the url of a directory resolved to an index file
C37_WatcherHandlerETag ==
    Updated => /\ Len(Again.sent) = 1
               /\ Again.sent[1].status = SUCCESS
               /\ Again.sent[1].headers["etag"] = quote(etags[Url].etag)


\* the time until which the answer that registered an entry wanted it kept:
\* its registration plus the max-age of its own Cache-Control
Deadline(entry) == entry.timestamp + regex_number(entry.headers["cache-control"])

\* C38: an expiry timer scheduled for one proxied answer never removes the
\* ETag cache entry a later answer registered for the same url before the
\* delay of that entry's own max-age has elapsed (all answers carry the same
\* max-age, so a timer due before the deadline of an entry is older than it)
C38_NoEarlyEviction ==
    [][\A url \in DOMAIN etags : url \notin DOMAIN etags' => clock >= Deadline(etags[url])]_vars


\* a 206 answer to a GET whose body was handed to respond() as a buffer
Sliced ==
    /\ Was("respond") /\ Rq.method = "GET" /\ ~served.x.file /\ served.x.body # NO_CONTENT
    /\ Len(Out.sent) = 1
    /\ Out.sent[1].status = PARTIAL_CONTENT /\ Out.sent[1].mode = "buffered"

\* C39: for a 206 response with a buffered body of total length N and the
\* range start..end, the number of body units written equals the emitted
\* content-length, which is end - start + 1, and the range lies inside the
\* body, end <= N - 1, whether the client gave the end or it was filled in
\* from content-length
C39_RangeSliceLength ==
    Sliced =>
        LET h == Out.sent[1].headers
            start == h["content-range"][1]
            end == h["content-range"][2]
        IN  /\ h["content-length"] = end - start + 1
            /\ Len(Out.sent[1].body) = h["content-length"]
            /\ end <= Len(served.x.body) - 1


\* how often the GET fallback of decorate() stands in the handler list of a
\* pathname of a vhost
Fallbacks(hst, pathname) ==
    LET c == Table(middleware, hst, "get")
    IN  IF \E i \in 1..Len(c) : c[i].path = pathname
        THEN LET fns == c[CHOOSE i \in 1..Len(c) : c[i].path = pathname].fns
             IN  Cardinality({k \in 1..Len(fns) : fns[k] = "fallback"})
        ELSE 0

\* C40: for every vhost and pathname the decoration step installs the GET
\* fallback handler at most once over any number of requests for that
\* pathname, also for a pathname whose text does not match itself as an
\* anchored pattern
C40_BoundedSelfRegistration ==
    \A hst \in {ALL, "a*", "*"}, pathname \in {"/a", "/a+"} : Fallbacks(hst, pathname) <= 1

====
